---- MODULE Spec2Model ----
(***************************************************************************)
(* Model of qiita-sync (qiita_sync/qiita_sync.py): the sync engine that    *)
(* classifies every local article against its Qiita counterpart and        *)
(* dispatches one of the three policies check / sync / prune, together     *)
(* with the link translation between the local and the global form.        *)
(*                                                                         *)
(* Abstractions.                                                           *)
(*  - A path is the sequence of its components below the git top          *)
(*    directory; Outside stands for every path that leaves the repository. *)
(*  - A body is a sequence of segments: a text line, a blank line, a       *)
(*    Markdown link or a Markdown image.  A link target is a relative     *)
(*    path (with or without a leading "./"), an article URL of the         *)
(*    authenticated account, or a hosted-file URL of this repository.      *)
(*  - Timestamps are drawn from one clock that ticks on every mutation;    *)
(*    files take their timestamp from the modification time (the mode      *)
(*    used outside GitHub Actions).                                        *)
(*  - Every article file starts with a metadata block; the generated file  *)
(*    name of a remote item embeds its id, and no user file uses the       *)
(*    generated name of an item.                                           *)
(*  - The remote service changes only through this program during a        *)
(*    behaviour.  Under Spec it answers every request; under SpecCli a     *)
(*    request chosen at the start of an invocation may fail with an HTTP   *)
(*    error other than 404.                                                *)
(***************************************************************************)
EXTENDS Integers, Sequences, FiniteSets, TLC

\* ---------------------------------------------------------------- bounds
MaxTime == 2
MaxRuns == 2
MaxCliRuns == 1
MaxFault == 3
MaxTags == 2
MaxText == 7
MaxPieces == 3
MaxSegs == 2

\* ------------------------------------------------------------- alphabets
None == "None"
NoPath == <<>>
NoUrl == [t |-> "none"]
InitIds == {"q1", "q2"}
NewIds == <<"n1", "n2">>
Ids == InitIds \cup {NewIds[i] : i \in 1..Len(NewIds)}

PathA == <<"a.md">>
PathB == <<"doc", "b.md">>
UserPaths == {PathA, PathB}
PathC == <<"doc2", "c.md">>
PathD == <<"doc", "d.md">>
CliPaths == {PathA, PathB, PathC, PathD}
Outside == <<"..">>


\* ---------------------------------------------------------------- util
\* str.lower() on the tag names of the model
Lower(s) == IF s = "Py" THEN "py" ELSE s

Parent(path) == SubSeq(path, 1, Len(path) - 1)

RECURSIVE CommonLen(_, _)
CommonLen(a, b) ==
    IF a = <<>> \/ b = <<>> \/ Head(a) # Head(b) THEN 0
    ELSE 1 + CommonLen(Tail(a), Tail(b))

\* link targets
Rel(dot, up, down) == [t |-> "rel", dot |-> dot, up |-> up, down |-> down]
QiitaUrl(id) == [t |-> "qiita", id |-> id]
GitHubUrl(path) == [t |-> "github", path |-> path]
AbsPath == [t |-> "abs"]

\* segments
Text(s) == [kind |-> "text", v |-> s]
Blank == [kind |-> "blank"]
Link(tgt) == [kind |-> "link", tgt |-> tgt]
Image(tgt) == [kind |-> "image", tgt |-> tgt]

\* os.path.relpath(to_path, from_path), always in normalised form
rel_path(to_path, from_path) ==
    LET c == CommonLen(to_path, from_path)
    IN  Rel(FALSE, Len(from_path) - c, SubSeq(to_path, c + 1, Len(to_path)))

\* path.joinpath(sub).resolve(): a leading "./" disappears
add_path(path, sub) ==
    IF sub.up > Len(path) THEN Outside
    ELSE SubSeq(path, 1, Len(path) - sub.up) \o sub.down

\* the characters of a file or directory name
Chars(name) ==
    CASE name = "doc" -> <<"d", "o", "c">>
      [] name = "doc2" -> <<"d", "o", "c", "2">>
      [] name = "a.md" -> <<"a", ".", "m", "d">>
      [] name = "b.md" -> <<"b", ".", "m", "d">>
      [] name = "c.md" -> <<"c", ".", "m", "d">>
      [] name = "d.md" -> <<"d", ".", "m", "d">>
      [] name = "q1.md" -> <<"q", "1", ".", "m", "d">>
      [] name = "q2.md" -> <<"q", "2", ".", "m", "d">>
      [] name = "n1.md" -> <<"n", "1", ".", "m", "d">>
      [] OTHER -> <<"n", "2", ".", "m", "d">>

\* str(path): the text of a resolved path, after the text of the git
\* directory that all paths of the model share
RECURSIVE PathStr(_)
PathStr(path) ==
    IF path = <<>> THEN <<>>
    ELSE <<"/">> \o Chars(Head(path)) \o PathStr(Tail(path))

\* os.path.commonprefix of two texts: the longest common leading text,
\* compared character by character
commonprefix(a, b) == SubSeq(a, 1, CommonLen(a, b))

\* is_sub_prefix
is_sub_prefix(target, parent) ==
    commonprefix(PathStr(target), PathStr(parent)) = PathStr(parent)

\* str.startswith
startswith(s, prefix) ==
    Len(prefix) <= Len(s) /\ SubSeq(s, 1, Len(prefix)) = prefix

RECURSIVE DropBlank(_)
DropBlank(b) ==
    IF b # <<>> /\ Head(b) = Blank THEN DropBlank(Tail(b)) ELSE b

RECURSIVE Reverse(_)
Reverse(s) == IF s = <<>> THEN <<>> ELSE Append(Reverse(Tail(s)), Head(s))

\* strips the blank lines at both ends, keeps the inner ones
to_normalize_body(content) == Reverse(DropBlank(Reverse(DropBlank(content))))

\* str.strip() of a body, at the granularity of segments
Strip(body) == Reverse(DropBlank(Reverse(DropBlank(body))))

\* ---------------------------------------------------------- Qiita data
\* QiitaTag.__eq__: the name is compared case-insensitively
QiitaTag_eq(a, b) == Lower(a) = Lower(b)

\* tuple equality of QiitaTags, element by element with QiitaTag.__eq__
QiitaTags_eq(a, b) ==
    /\ Len(a) = Len(b)
    /\ \A i \in 1..Len(a) : QiitaTag_eq(a[i], b[i])

QiitaData(title, tags, id, private) ==
    [title |-> title, tags |-> tags, id |-> id, private |-> private]

\* QiitaData.__eq__: title and tags only
QiitaData_eq(a, b) == a.title = b.title /\ QiitaTags_eq(a.tags, b.tags)

\* variant: the private flag takes part in the comparison
GitHubArticle_eq_private(a, b) ==
    /\ QiitaData_eq(a.data, b.data) /\ Strip(a.body) = Strip(b.body)
    /\ a.data.private = b.data.private

\* GitHubArticle.__eq__
GitHubArticle_eq(a, b) ==
    QiitaData_eq(a.data, b.data) /\ Strip(a.body) = Strip(b.body)

\* GitHubArticle.fromFile: the text after the closing "-->" of the metadata
\* block starts with the line break that ends the block, so the parsed body
\* begins with an empty line
GitHubArticle_fromFile(files, filepath) ==
    [data |-> files[filepath].data,
     body |-> <<Blank>> \o files[filepath].body,
     timestamp |-> files[filepath].mtime,
     filepath |-> filepath]

\* QiitaArticle.fromApi
QiitaArticle_fromApi(id, item) ==
    [data |-> QiitaData(item.title, item.tags, id, item.private),
     body |-> item.body,
     timestamp |-> item.updated_at]

\* QiitaArticle.toApi: the id is not part of the request body
QiitaArticle_toApi(article) ==
    [body |-> article.body, tags |-> article.data.tags,
     title |-> article.data.title, private |-> article.data.private]

\* --------------------------------------------------------- QiitaSync
\* qsync_temporary_file_name joined to the git directory
TmpPath(id) ==
    CASE id = "q1" -> <<"q1.md">>
      [] id = "q2" -> <<"q2.md">>
      [] id = "n1" -> <<"n1.md">>
      [] OTHER -> <<"n2.md">>

Paths == UserPaths \cup {TmpPath(i) : i \in Ids}

\* QiitaSync.getInstance: file_list is the order the glob produced; for an id
\* carried by several files the last one of the list stays in atcl_id_map
QiitaSync_getInstance(files, file_list) ==
    LET has(id) == {i \in 1..Len(file_list) : files[file_list[i]].data.id = id}
        last(id) == CHOOSE i \in has(id) : \A j \in has(id) : j <= i
        known == {id \in Ids : has(id) # {}}
    IN  [file_list |-> file_list,
         atcl_path_map |->
             [p \in DOMAIN files |-> GitHubArticle_fromFile(files, p)],
         atcl_id_map |->
             [id \in known |-> GitHubArticle_fromFile(files, file_list[last(id)])]]

\* variant: the lookup never finds a local article
QiitaSync_getArticleById_none(qsync, id) == <<>>

\* QiitaSync.getArticleById: <<article>>, or <<>> for None
QiitaSync_getArticleById(qsync, id) ==
    IF id \in DOMAIN qsync.atcl_id_map THEN <<qsync.atcl_id_map[id]>> ELSE <<>>

\* QiitaSync.getArticleByPath: the paths of the selected articles, in the
\* order of atcl_path_map; the git directory is the empty path
QiitaSync_getArticleByPath(qsync, target) ==
    IF target = <<>> THEN qsync.file_list
    ELSE SelectSeq(qsync.file_list,
                   LAMBDA path : startswith(PathStr(path), PathStr(target)))

QiitaSync_getFilePathById(qsync, id) ==
    IF id \in DOMAIN qsync.atcl_id_map THEN qsync.atcl_id_map[id].filepath ELSE NoPath

\* QiitaSync.toGitHubImageLink
QiitaSync_toGitHubImageLink(link, filepath) ==
    IF link.t = "github" THEN rel_path(link.path, Parent(filepath)) ELSE link

\* variant: an id without a local file always gets a placeholder path
QiitaSync_toGitHubMarkdownlLink_placeholder(qsync, link, filepath, extra_finder) ==
    IF link.t = "qiita"
    THEN LET known == QiitaSync_getFilePathById(qsync, link.id)
             fp == IF known # NoPath THEN known ELSE TmpPath(link.id)
         IN  rel_path(fp, Parent(filepath))
    ELSE link

\* QiitaSync.toGitHubMarkdownlLink; extra_finder is the map from the ids it
\* finds to their paths
QiitaSync_toGitHubMarkdownlLink(qsync, link, filepath, extra_finder) ==
    IF link.t = "qiita"
    THEN LET known == QiitaSync_getFilePathById(qsync, link.id)
             fp == IF known # NoPath THEN known
                   ELSE IF link.id \in DOMAIN extra_finder
                        THEN extra_finder[link.id] ELSE NoPath
         IN  IF fp # NoPath THEN rel_path(fp, Parent(filepath)) ELSE link
    ELSE link

\* QiitaSync.toGitHubArticle
QiitaSync_toGitHubArticle(qsync, article, filepath, extra_finder) ==
    LET conv(seg) ==
            IF seg.kind = "link"
            THEN Link(QiitaSync_toGitHubMarkdownlLink(qsync, seg.tgt, filepath, extra_finder))
            ELSE IF seg.kind = "image"
            THEN Image(QiitaSync_toGitHubImageLink(seg.tgt, filepath))
            ELSE seg
    IN  [data |-> article.data,
         body |-> to_normalize_body([i \in 1..Len(article.body) |-> conv(article.body[i])]),
         timestamp |-> article.timestamp,
         filepath |-> filepath]

\* QiitaSync.getGitHubUrl: None for a path outside the git directory
QiitaSync_getGitHubUrl(pathname) ==
    IF pathname = Outside THEN NoUrl ELSE GitHubUrl(pathname)

\* QiitaSync.toQiitaImageLink
QiitaSync_toQiitaImageLink(link, article) ==
    IF link.t = "rel"
    THEN LET p == add_path(Parent(article.filepath), link)
             url == QiitaSync_getGitHubUrl(p)
         IN  IF url = NoUrl THEN link ELSE url
    ELSE link

\* variant: a link to anything but an article with an id becomes the
\* hosted-file URL
QiitaSync_toQiitaMarkdownLink_hosted(files, link, article) ==
    IF link.t = "rel"
    THEN LET p == add_path(Parent(article.filepath), link)
         IN  IF p \in DOMAIN files /\ files[p].data.id # None
             THEN QiitaUrl(files[p].data.id)
             ELSE IF p = Outside THEN link ELSE GitHubUrl(p)
    ELSE link

\* QiitaSync.toQiitaMarkdownLink: the linked file is read from the disk at the
\* moment of the conversion
QiitaSync_toQiitaMarkdownLink(files, link, article) ==
    IF link.t = "rel"
    THEN LET p == add_path(Parent(article.filepath), link)
         IN  IF p \in DOMAIN files /\ files[p].data.id # None
             THEN QiitaUrl(files[p].data.id) ELSE link
    ELSE link

\* QiitaSync.toQiitaArticle
QiitaSync_toQiitaArticle(files, article) ==
    LET conv(seg) ==
            IF seg.kind = "link"
            THEN Link(QiitaSync_toQiitaMarkdownLink(files, seg.tgt, article))
            ELSE IF seg.kind = "image"
            THEN Image(QiitaSync_toQiitaImageLink(seg.tgt, article))
            ELSE seg
    IN  [data |-> article.data,
         body |-> to_normalize_body([i \in 1..Len(article.body) |-> conv(article.body[i])]),
         timestamp |-> article.timestamp]

\* ------------------------------------------------- effects of one handler
\* The handlers work on a record of the world: the files, the remote items,
\* the next id the service assigns, the clock, and what the call has done so
\* far: remote requests, files written and removed, lines printed, and the
\* exception that ended it.
NoError == "NoError"

\* fault is the number of requests the service still answers before one
\* fails with an HTTP error other than 404; NoFault when none fails
NoFault == -1

World(files, remote, nextNew, now) ==
    [files |-> files, remote |-> remote, nextNew |-> nextNew, now |-> now,
     calls |-> <<>>, writes |-> {}, removes |-> {}, out |-> <<>>,
     raised |-> NoError, fault |-> NoFault]

Raise(w, exc) == [w EXCEPT !.raised = exc]

\* restapi_call: urlopen raises HTTPError for a failing request
restapi_call(w) ==
    IF w.fault = 0
    THEN Raise([w EXCEPT !.calls = Append(@, [method |-> "FAILED", id |-> None])], "HTTPError")
    ELSE [w EXCEPT !.fault = IF @ > 0 THEN @ - 1 ELSE @]

print(w, line) == [w EXCEPT !.out = Append(@, line)]

RemoteItem(data, now) ==
    [title |-> data.title, tags |-> data.tags, body |-> data.body,
     private |-> data.private, updated_at |-> now]

\* qiita_post_item: the service assigns the id and the update time
qiita_post_item(w0, data) ==
    LET w == restapi_call(w0)
        id == NewIds[w.nextNew]
    IN  IF w.raised # NoError THEN w ELSE
        [w EXCEPT !.remote = [i \in DOMAIN w.remote \cup {id} |->
                                 IF i = id THEN RemoteItem(data, w.now) ELSE w.remote[i]],
                  !.nextNew = @ + 1,
                  !.now = @ + 1,
                  !.calls = Append(@, [method |-> "POST", id |-> id])]

\* qiita_patch_item: 404 becomes ApplicationFileError
qiita_patch_item(w0, id, data) ==
    LET w == restapi_call(w0)
    IN  IF w.raised # NoError THEN w
        ELSE IF id \notin DOMAIN w.remote THEN Raise(w, "ApplicationFileError")
        ELSE [w EXCEPT !.remote = [@ EXCEPT ![id] = RemoteItem(data, w.now)],
                   !.now = @ + 1,
                   !.calls = Append(@, [method |-> "PATCH", id |-> id])]

\* qiita_delete_item: 404 becomes ApplicationFileError
qiita_delete_item(w0, id) ==
    LET w == restapi_call(w0)
    IN  IF w.raised # NoError THEN w
        ELSE IF id \notin DOMAIN w.remote THEN Raise(w, "ApplicationFileError")
        ELSE [w EXCEPT !.remote = [i \in DOMAIN w.remote \ {id} |-> w.remote[i]],
                   !.now = @ + 1,
                   !.calls = Append(@, [method |-> "DELETE", id |-> id])]

\* qsync_save_github_article: whole-file overwrite with toText()
qsync_save_github_article(w, g_atcl) ==
    [w EXCEPT !.files = [p \in DOMAIN w.files \cup {g_atcl.filepath} |->
                            IF p = g_atcl.filepath
                            THEN [data |-> g_atcl.data, body |-> g_atcl.body, mtime |-> w.now]
                            ELSE w.files[p]],
              !.now = @ + 1,
              !.writes = @ \cup {g_atcl.filepath}]

\* os.remove
os_remove(w, filepath) ==
    IF filepath \notin DOMAIN w.files THEN Raise(w, "FileNotFoundError")
    ELSE [w EXCEPT !.files = [p \in DOMAIN w.files \ {filepath} |-> w.files[p]],
                   !.removes = @ \cup {filepath}]

\* variant: the id the service assigned is not written back to the file
QiitaSync_upload_no_save(w, article) ==
    IF article.data.id # None
    THEN qiita_patch_item(w, article.data.id,
                          QiitaArticle_toApi(QiitaSync_toQiitaArticle(w.files, article)))
    ELSE qiita_post_item(w, QiitaArticle_toApi(QiitaSync_toQiitaArticle(w.files, article)))

\* QiitaSync.upload
QiitaSync_upload(w, article) ==
    IF article.data.id # None
    THEN qiita_patch_item(w, article.data.id,
                          QiitaArticle_toApi(QiitaSync_toQiitaArticle(w.files, article)))
    ELSE LET w1 == qiita_post_item(w, QiitaArticle_toApi(QiitaSync_toQiitaArticle(w.files, article)))
             id == NewIds[w.nextNew]
             q_atcl == QiitaArticle_fromApi(id, w1.remote[id])
         IN  IF w1.raised # NoError THEN w1
             ELSE qsync_save_github_article(
                      w1, [article EXCEPT !.data = q_atcl.data, !.timestamp = q_atcl.timestamp])

\* QiitaSync.delete
QiitaSync_delete(w, article) ==
    IF article.data.id # None THEN qiita_delete_item(w, article.data.id)
    ELSE Raise(w, "ApplicationFileError")

\* qiita_get_item: 404 becomes ApplicationFileError
qiita_get_item(w0, id) ==
    LET w == restapi_call(w0)
    IN  IF w.raised # NoError THEN w
        ELSE LET w1 == [w EXCEPT !.calls = Append(@, [method |-> "GET", id |-> id])]
             IN  IF id \notin DOMAIN w.remote THEN Raise(w1, "ApplicationFileError") ELSE w1

\* QiitaSync.download: the remote article in its local form replaces the file
QiitaSync_download(qsync, w, g_atcl) ==
    IF g_atcl.data.id # None
    THEN LET id == g_atcl.data.id
             w1 == qiita_get_item(w, id)
         IN  IF w1.raised # NoError THEN w1
             ELSE qsync_save_github_article(
                      w1, QiitaSync_toGitHubArticle(
                              qsync, QiitaArticle_fromApi(id, w1.remote[id]),
                              g_atcl.filepath, <<>>))
    ELSE w

\* -------------------------------------------------------- Qiita Sync CLI
\* qsync_to_github_article
qsync_to_github_article(qsync, q_atcl, extra_finder) ==
    QiitaSync_toGitHubArticle(qsync, q_atcl, TmpPath(q_atcl.data.id), extra_finder)

\* variant: the timestamps are compared before the content
qsync_get_sync_status_time_first(qsync, g_atcl, get_qiita_article) ==
    IF g_atcl.data.id = None THEN [status |-> "GITHUB_ONLY", lq |-> <<>>]
    ELSE IF g_atcl.data.id \notin DOMAIN get_qiita_article
    THEN [status |-> "QIITA_DELETED", lq |-> <<>>]
    ELSE LET lq_atcl == QiitaSync_toGitHubArticle(
                            qsync, get_qiita_article[g_atcl.data.id], g_atcl.filepath, <<>>)
         IN  IF g_atcl.timestamp > lq_atcl.timestamp
             THEN [status |-> "GITHUB_NEW", lq |-> <<lq_atcl>>]
             ELSE IF g_atcl.timestamp < lq_atcl.timestamp
             THEN [status |-> "QIITA_NEW", lq |-> <<lq_atcl>>]
             ELSE IF GitHubArticle_eq(g_atcl, lq_atcl)
             THEN [status |-> "SYNC", lq |-> <<lq_atcl>>]
             ELSE [status |-> "CONFLICT", lq |-> <<lq_atcl>>]

\* qsync_get_sync_status; get_qiita_article is the map from the ids the lookup
\* finds to their articles; lq is <<article>>, or <<>> for None
qsync_get_sync_status(qsync, g_atcl, get_qiita_article) ==
    IF g_atcl.data.id = None THEN [status |-> "GITHUB_ONLY", lq |-> <<>>]
    ELSE IF g_atcl.data.id \notin DOMAIN get_qiita_article
    THEN [status |-> "QIITA_DELETED", lq |-> <<>>]
    ELSE LET lq_atcl == QiitaSync_toGitHubArticle(
                            qsync, get_qiita_article[g_atcl.data.id], g_atcl.filepath, <<>>)
         IN  IF GitHubArticle_eq(g_atcl, lq_atcl) THEN [status |-> "SYNC", lq |-> <<lq_atcl>>]
             ELSE IF g_atcl.timestamp > lq_atcl.timestamp
             THEN [status |-> "GITHUB_NEW", lq |-> <<lq_atcl>>]
             ELSE IF g_atcl.timestamp < lq_atcl.timestamp
             THEN [status |-> "QIITA_NEW", lq |-> <<lq_atcl>>]
             ELSE [status |-> "CONFLICT", lq |-> <<lq_atcl>>]

Msg(kind, article) == [msg |-> kind, path |-> article.filepath, id |-> article.data.id]

\* variant: the report of a LOCAL_ONLY article also uploads it
qsync_do_check_uploads(w, status, g_atcl, lq, verbose) ==
    IF status = "GITHUB_ONLY" THEN QiitaSync_upload(print(w, Msg("Local Only", g_atcl)), g_atcl)
    ELSE IF status = "QIITA_ONLY" /\ lq # <<>> THEN print(w, Msg("Qiita Only", lq[1]))
    ELSE IF status = "GITHUB_NEW" /\ lq # <<>>
    THEN print(print(w, Msg("Local is new", g_atcl)), Msg("diff", g_atcl))
    ELSE IF status = "QIITA_NEW" /\ lq # <<>>
    THEN print(print(w, Msg("Qiita is new", lq[1])), Msg("diff", g_atcl))
    ELSE IF status = "QIITA_DELETED" THEN print(w, Msg("Not found in Qiita", g_atcl))
    ELSE IF status = "SYNC" THEN w
    ELSE print(w, Msg("Conflict", g_atcl))

\* qsync_do_check
qsync_do_check(w, status, g_atcl, lq, verbose) ==
    LET w0 == IF verbose THEN print(w, Msg("====", g_atcl)) ELSE w
    IN  IF status = "GITHUB_ONLY" THEN print(w0, Msg("Local Only", g_atcl))
        ELSE IF status = "QIITA_ONLY" /\ lq # <<>> THEN print(w0, Msg("Qiita Only", lq[1]))
        ELSE IF status = "GITHUB_NEW" /\ lq # <<>>
        THEN print(print(w0, Msg("Local is new", g_atcl)), Msg("diff", g_atcl))
        ELSE IF status = "QIITA_NEW" /\ lq # <<>>
        THEN print(print(w0, Msg("Qiita is new", lq[1])), Msg("diff", g_atcl))
        ELSE IF status = "QIITA_DELETED" THEN print(w0, Msg("Not found in Qiita", g_atcl))
        ELSE IF status = "SYNC"
        THEN IF verbose /\ lq # <<>>
             THEN print(print(print(w0, Msg("Sync", g_atcl)),
                              Msg("GitHub timestamp", g_atcl)), Msg("Qiita timestamp", lq[1]))
             ELSE w0
        ELSE IF status = "CONFLICT" THEN print(w0, Msg("Conflict", g_atcl))
        ELSE Raise(w0, "ApplicationError")

\* variant: the branches of the two NEWER states are exchanged
qsync_do_sync_new_swapped(w, status, g_atcl, lq) ==
    IF status = "GITHUB_ONLY" THEN QiitaSync_upload(w, g_atcl)
    ELSE IF status = "QIITA_ONLY" /\ lq # <<>> THEN qsync_save_github_article(w, lq[1])
    ELSE IF status = "GITHUB_NEW" /\ lq # <<>> THEN qsync_save_github_article(w, lq[1])
    ELSE IF status = "QIITA_NEW" THEN QiitaSync_upload(w, g_atcl)
    ELSE IF status = "QIITA_DELETED" THEN print(w, Msg("Not found in Qiita", g_atcl))
    ELSE IF status = "SYNC" THEN w
    ELSE print(w, Msg("Conflict", g_atcl))

\* variant: a conflict is resolved by uploading the local article
qsync_do_sync_conflict_upload(w, status, g_atcl, lq) ==
    IF status = "GITHUB_ONLY" THEN QiitaSync_upload(w, g_atcl)
    ELSE IF status = "QIITA_ONLY" /\ lq # <<>> THEN qsync_save_github_article(w, lq[1])
    ELSE IF status = "GITHUB_NEW" THEN QiitaSync_upload(w, g_atcl)
    ELSE IF status = "QIITA_NEW" /\ lq # <<>> THEN qsync_save_github_article(w, lq[1])
    ELSE IF status = "QIITA_DELETED" THEN print(w, Msg("Not found in Qiita", g_atcl))
    ELSE IF status = "SYNC" THEN w
    ELSE QiitaSync_upload(w, g_atcl)

\* qsync_do_sync
qsync_do_sync(w, status, g_atcl, lq) ==
    IF status = "GITHUB_ONLY" THEN QiitaSync_upload(w, g_atcl)
    ELSE IF status = "QIITA_ONLY" /\ lq # <<>> THEN qsync_save_github_article(w, lq[1])
    ELSE IF status = "GITHUB_NEW" THEN QiitaSync_upload(w, g_atcl)
    ELSE IF status = "QIITA_NEW" /\ lq # <<>> THEN qsync_save_github_article(w, lq[1])
    ELSE IF status = "QIITA_DELETED" THEN print(w, Msg("Not found in Qiita", g_atcl))
    ELSE IF status = "SYNC" THEN w
    ELSE IF status = "CONFLICT" THEN print(w, Msg("Conflict", g_atcl))
    ELSE Raise(w, "ApplicationError")

\* variant: the file of a private article is removed whether or not the
\* deletion of its item succeeded
qsync_do_prune_remove_anyway(w, status, g_atcl, lq) ==
    IF g_atcl.data.private
    THEN LET w1 == QiitaSync_delete(w, g_atcl)
         IN  [os_remove(w1, g_atcl.filepath) EXCEPT !.raised = w1.raised]
    ELSE IF status = "GITHUB_ONLY" THEN os_remove(w, g_atcl.filepath)
    ELSE IF status = "QIITA_ONLY" /\ lq # <<>> /\ lq[1].data.id # None
    THEN qiita_delete_item(w, lq[1].data.id)
    ELSE IF status = "GITHUB_NEW" THEN QiitaSync_upload(w, g_atcl)
    ELSE IF status = "QIITA_NEW" /\ lq # <<>> THEN qsync_save_github_article(w, lq[1])
    ELSE IF status = "QIITA_DELETED" THEN os_remove(w, g_atcl.filepath)
    ELSE IF status = "SYNC" THEN w
    ELSE IF status = "CONFLICT" THEN QiitaSync_upload(w, g_atcl)
    ELSE Raise(w, "ApplicationError")

\* variant: a conflict is only reported
qsync_do_prune_conflict_report(w, status, g_atcl, lq) ==
    IF g_atcl.data.private
    THEN LET w1 == QiitaSync_delete(w, g_atcl)
         IN  IF w1.raised # NoError THEN w1 ELSE os_remove(w1, g_atcl.filepath)
    ELSE IF status = "GITHUB_ONLY" THEN os_remove(w, g_atcl.filepath)
    ELSE IF status = "QIITA_ONLY" /\ lq # <<>> /\ lq[1].data.id # None
    THEN qiita_delete_item(w, lq[1].data.id)
    ELSE IF status = "GITHUB_NEW" THEN QiitaSync_upload(w, g_atcl)
    ELSE IF status = "QIITA_NEW" /\ lq # <<>> THEN qsync_save_github_article(w, lq[1])
    ELSE IF status = "QIITA_DELETED" THEN os_remove(w, g_atcl.filepath)
    ELSE IF status = "SYNC" THEN w
    ELSE print(w, Msg("Conflict", g_atcl))

\* qsync_do_prune
qsync_do_prune(w, status, g_atcl, lq) ==
    IF g_atcl.data.private
    THEN LET w1 == QiitaSync_delete(w, g_atcl)
         IN  IF w1.raised # NoError THEN w1 ELSE os_remove(w1, g_atcl.filepath)
    ELSE IF status = "GITHUB_ONLY" THEN os_remove(w, g_atcl.filepath)
    ELSE IF status = "QIITA_ONLY" /\ lq # <<>> /\ lq[1].data.id # None
    THEN qiita_delete_item(w, lq[1].data.id)
    ELSE IF status = "GITHUB_NEW" THEN QiitaSync_upload(w, g_atcl)
    ELSE IF status = "QIITA_NEW" /\ lq # <<>> THEN qsync_save_github_article(w, lq[1])
    ELSE IF status = "QIITA_DELETED" THEN os_remove(w, g_atcl.filepath)
    ELSE IF status = "SYNC" THEN w
    ELSE IF status = "CONFLICT" THEN QiitaSync_upload(w, g_atcl)
    ELSE Raise(w, "ApplicationError")

\* the handler a subcommand hands to qsync_traverse
Handler(cmd, verbose, w, status, g_atcl, lq) ==
    IF cmd = "check" THEN qsync_do_check(w, status, g_atcl, lq, verbose)
    ELSE IF cmd = "sync" THEN qsync_do_sync(w, status, g_atcl, lq)
    ELSE qsync_do_prune(w, status, g_atcl, lq)

\* ------------------------------------------------------------------ state
VARIABLES
    files,        \* the article files of the working tree: path -> content
    remote,       \* the items of the account on Qiita: id -> item
    nextNew,      \* index in NewIds of the id the next POST is given
    now,          \* the clock
    runs,         \* number of finished invocations of qsync_main
    pc,           \* "idle" between invocations, "run" inside qsync_traverse
    cmd,          \* subcommand of the current (or last) invocation
    verbose,      \* its --verbose flag
    qsync,        \* the QiitaSync instance built by qsync_init
    q_atcl_dict,  \* the remote articles listed at the start of the traversal
    idx,          \* position of the first loop in qsync.file_list
    todoR,        \* ids the second loop has not visited yet, in list order
    log,          \* handler invocations of this invocation, with their effects
    out,          \* lines printed by this invocation
    result,       \* how the last invocation ended
    prev,         \* summary of the invocation before the current one
    target,       \* the target argument; <<>> is the git directory
    sel,          \* the articles a narrower target or a batch selects
    fault,        \* requests still answered before one fails; NoFault: none
    env,          \* what the environment of the invocation lacks, or "ok"
    arg,          \* the input of a text function under SpecSerial / SpecMarkdown
    res,          \* what the functions applied so far made of it
    op            \* the last function applied to it

vars == <<files, remote, nextNew, now, runs, pc, cmd, verbose, qsync,
          q_atcl_dict, idx, todoR, log, out, result, prev, target, sel, fault,
          env, arg, res, op>>

\* the variables of the sync engine and of the text functions
engine == <<files, remote, nextNew, now, runs, pc, cmd, verbose, qsync,
            q_atcl_dict, idx, todoR, log, out, result, prev, target, sel, fault,
            env>>
text == <<arg, res, op>>

Cmds == {"check", "sync", "prune"}

FileRec(data, body, mtime) == [data |-> data, body |-> body, mtime |-> mtime]

\* the orders in which the glob of qsync_get_github_article may list a set of
\* files: the order of a Python set is arbitrary; two opposite orders put every
\* pair of files both ways round
AllPaths ==
    <<PathA, PathB, PathC, PathD,
      TmpPath("q1"), TmpPath("q2"), TmpPath("n1"), TmpPath("n2")>>

FileOrders(S) ==
    LET sorted == SelectSeq(AllPaths, LAMBDA p : p \in S)
    IN  {sorted, Reverse(sorted)}

\* the order of the item list of the service: newest item first
ListOrder == <<"n2", "n1", "q2", "q1">>

\* maps from a subset of D to R
PartialMaps(D, R) == UNION {[S -> R] : S \in SUBSET D}

\* ---- one article and its counterpart: the metadata, the private flags, the
\* ids and the timestamps vary
MetaRemoteMeta ==
    {[title |-> "A", tags |-> <<"py">>], [title |-> "B", tags |-> <<"py">>],
     [title |-> "A", tags |-> <<"Py">>], [title |-> "A", tags |-> <<"go">>]}

MetaFiles ==
    {FileRec(QiitaData("A", <<"py">>, id, private), <<Text("x")>>, mtime) :
        id \in {None} \cup InitIds, private \in BOOLEAN, mtime \in 1..MaxTime}

MetaItems ==
    {RemoteItem([title |-> m.title, tags |-> m.tags, body |-> body, private |-> private], t) :
        m \in MetaRemoteMeta, private \in BOOLEAN,
        body \in {<<Text("x")>>, <<Text("y")>>}, t \in 1..MaxTime}

InitMeta ==
    /\ files \in PartialMaps({PathA}, MetaFiles)
    /\ remote \in PartialMaps({"q1"}, MetaItems)

\* ---- one article and its counterpart: the bodies, the ids and the
\* timestamps vary
LocalBodies ==
    {<<Text("x")>>, <<Text("x"), Blank>>, <<Link(QiitaUrl("q1"))>>,
     <<Image(Rel(FALSE, 0, <<"i.png">>))>>, <<Image(Rel(TRUE, 0, <<"i.png">>))>>}

RemoteBodies ==
    {<<Text("x")>>, <<Text("y")>>, <<Blank, Text("x")>>, <<Link(QiitaUrl("q1"))>>,
     <<Image(GitHubUrl(<<"i.png">>))>>}

BodyFiles ==
    {FileRec(QiitaData("A", <<"py">>, id, FALSE), body, mtime) :
        id \in {None} \cup InitIds, body \in LocalBodies, mtime \in 1..MaxTime}

BodyItems ==
    {RemoteItem([title |-> "A", tags |-> <<"py">>, body |-> body, private |-> FALSE], t) :
        body \in RemoteBodies, t \in 1..MaxTime}

InitBody ==
    /\ files \in PartialMaps({PathA}, BodyFiles)
    /\ remote \in PartialMaps({"q1"}, BodyItems)

\* ---- two articles that may link to each other, and two remote items that
\* may link to each other
OtherPath(p) == IF p = PathA THEN PathB ELSE PathA

WideFiles(p) ==
    {FileRec(QiitaData("A", <<"py">>, id, FALSE), body, mtime) :
        id \in {None} \cup InitIds,
        body \in {<<Text("x")>>, <<Link(rel_path(OtherPath(p), Parent(p)))>>},
        mtime \in 1..MaxTime}

WideItems(id) ==
    {RemoteItem([title |-> "A", tags |-> <<"py">>, body |-> body, private |-> FALSE], 1) :
        body \in {<<Text("x")>>, <<Link(QiitaUrl(CHOOSE o \in InitIds : o # id))>>}}

InitWide ==
    /\ files \in {f \in [UserPaths -> UNION {WideFiles(p) : p \in UserPaths}] :
                     \A p \in UserPaths : f[p] \in WideFiles(p)}
    /\ \E S \in SUBSET InitIds :
          remote \in {r \in [S -> UNION {WideItems(i) : i \in S}] :
                         \A i \in S : r[i] \in WideItems(i)}

NoRun == [cmd |-> "none", verbose |-> FALSE, result |-> "none", statuses |-> {}]

Init ==
    /\ InitMeta \/ InitBody \/ InitWide
    /\ nextNew = 1
    /\ now = MaxTime + 1
    /\ runs = 0
    /\ pc = "idle"
    /\ cmd = "none"
    /\ verbose = FALSE
    /\ qsync = QiitaSync_getInstance(<<>>, <<>>)
    /\ q_atcl_dict = <<>>
    /\ idx = 1
    /\ todoR = <<>>
    /\ log = <<>>
    /\ out = <<>>
    /\ result = "none"
    /\ prev = NoRun
    /\ target = <<>>
    /\ sel = <<>>
    /\ fault = NoFault
    /\ env = "ok"
    /\ arg = <<>> /\ res = <<>> /\ op = "none"

\* ---------------------------------------------------------------- actions
\* qsync_main up to the first handler call of qsync_traverse on the git
\* directory: qsync_init globs and parses the files, the traversal lists the
\* remote items.
Start(c, v, file_list) ==
    /\ pc = "idle"
    /\ runs < MaxRuns
    /\ pc' = "run"
    /\ cmd' = c
    /\ verbose' = v
    /\ qsync' = QiitaSync_getInstance(files, file_list)
    /\ q_atcl_dict' = [id \in DOMAIN remote |-> QiitaArticle_fromApi(id, remote[id])]
    /\ idx' = 1
    /\ todoR' = SelectSeq(ListOrder, LAMBDA id : id \in DOMAIN remote)
    /\ log' = <<>>
    /\ out' = <<>>
    /\ prev' = [cmd |-> cmd, verbose |-> verbose, result |-> result,
                statuses |-> {log[i].status : i \in 1..Len(log)}]
    /\ target' = <<>>
    /\ sel' = <<>>
    /\ fault' = NoFault
    /\ env' = "ok"
    /\ UNCHANGED <<files, remote, nextNew, now, runs, result>>
    /\ UNCHANGED text

\* the world a step of the invocation starts from
TheWorld == [World(files, remote, nextNew, now) EXCEPT !.fault = fault]

\* the except clauses of qsync_main print the exception
Printed == {"CommandError", "ApplicationError", "ApplicationFileError", "HTTPError"}

ErrorLine(raised) ==
    IF raised \in Printed THEN <<[msg |-> raised, path |-> NoPath, id |-> None]>> ELSE <<>>

\* what one handler call leaves behind
Apply(w, entry) ==
    /\ files' = w.files
    /\ remote' = w.remote
    /\ nextNew' = w.nextNew
    /\ now' = w.now
    /\ fault' = w.fault
    /\ out' = out \o w.out \o ErrorLine(w.raised)
    /\ log' = Append(log, [entry EXCEPT !.calls = w.calls, !.writes = w.writes,
                                        !.removes = w.removes, !.raised = w.raised])
    /\ IF w.raised # NoError
       THEN pc' = "idle" /\ result' = w.raised /\ runs' = runs + 1
       ELSE UNCHANGED <<pc, result, runs>>

Entry(phase, status, article) ==
    [phase |-> phase, status |-> status, path |-> article.filepath,
     id |-> article.data.id, private |-> article.data.private,
     calls |-> <<>>, writes |-> {}, removes |-> {}, raised |-> NoError]

\* first loop of qsync_traverse: the next local article is classified and
\* handed to the handler
LocalStep ==
    /\ pc = "run"
    /\ idx <= Len(qsync.file_list)
    /\ LET g_atcl == qsync.atcl_path_map[qsync.file_list[idx]]
           resp == qsync_get_sync_status(qsync, g_atcl, q_atcl_dict)
           w == Handler(cmd, verbose, TheWorld, resp.status, g_atcl, resp.lq)
       IN  Apply(w, Entry("local", resp.status, g_atcl))
    /\ idx' = idx + 1
    /\ UNCHANGED <<cmd, verbose, qsync, q_atcl_dict, todoR, prev, target, sel, env>>
    /\ UNCHANGED text

\* second loop of qsync_traverse: a listed remote article is brought to the
\* local form and handed to the handler when no local article has its id
RemoteStep(id) ==
    /\ pc = "run"
    /\ idx > Len(qsync.file_list)
    /\ todoR # <<>>
    /\ id = Head(todoR)
    /\ todoR' = Tail(todoR)
    /\ LET extra_finder == [i \in DOMAIN q_atcl_dict |-> TmpPath(i)]
           lq_atcl == qsync_to_github_article(qsync, q_atcl_dict[id], extra_finder)
       IN  IF QiitaSync_getArticleById(qsync, id) = <<>>
           THEN Apply(Handler(cmd, verbose, TheWorld, "QIITA_ONLY", lq_atcl, <<lq_atcl>>),
                      Entry("remote", "QIITA_ONLY", lq_atcl))
           ELSE UNCHANGED <<files, remote, nextNew, now, out, log, pc, result, runs, fault>>
    /\ UNCHANGED <<cmd, verbose, qsync, q_atcl_dict, idx, prev, target, sel, env>>
    /\ UNCHANGED text

\* qsync_traverse returns and qsync_main ends
Finish ==
    /\ pc = "run"
    /\ idx > Len(qsync.file_list)
    /\ todoR = <<>>
    /\ pc' = "idle"
    /\ result' = "ok"
    /\ runs' = runs + 1
    /\ UNCHANGED <<files, remote, nextNew, now, cmd, verbose, qsync, q_atcl_dict,
                   idx, todoR, log, out, prev, target, sel, fault, env>>
    /\ UNCHANGED text

Next ==
    \/ \E c \in Cmds, v \in BOOLEAN, file_list \in FileOrders(DOMAIN files) :
          (v => c = "check") /\ Start(c, v, file_list)
    \/ LocalStep
    \/ \E id \in Ids : RemoteStep(id)
    \/ Finish

Spec == Init /\ [][Next]_vars

\* ------------------------------------------------- the command line: SpecCli
\* One invocation of qsync_main with any subcommand, any target, any
\* configuration of the environment, and a service that may fail.
AllCmds == Cmds \cup {"download", "upload", "delete"}

\* what the environment of the invocation lacks, if anything
Envs == {"ok", "no token", "not GitHub", "no branch", "no account"}

\* variant: the environment is not examined
qsync_init_unchecked(w, e) == restapi_call(w)

\* qsync_init: the access token, the remote URL and the branch are resolved
\* and the authenticated user is requested, in this order
qsync_init(w, e) ==
    IF e \in {"no token", "not GitHub", "no branch"} THEN Raise(w, "ApplicationError")
    ELSE LET w1 == restapi_call(w)
         IN  IF w1.raised # NoError THEN w1
             ELSE IF e = "no account" THEN Raise(w1, "ApplicationError")
             ELSE w1

\* qiita_get_item_list: one request per page up to the first empty page; the
\* items of the model fit in one page
qiita_get_item_list(w) ==
    LET w1 == restapi_call(w)
    IN  IF w1.raised # NoError \/ DOMAIN w.remote = {} THEN w1 ELSE restapi_call(w1)

\* the articles the second branch of qsync_traverse visits
NarrowSelection(q, tgt) ==
    SelectSeq(q.file_list, LAMBDA path : is_sub_prefix(path, tgt))

\* the targets of the model: the git directory, a subdirectory, a file
Targets == {<<>>, <<"doc">>} \cup (DOMAIN files \cap {PathB})

\* qsync_main up to the first iteration of the loop of the subcommand
Invoke(c, file_list, tgt, flt, e) ==
    /\ pc = "idle"
    /\ runs < MaxCliRuns
    /\ env' = e
    /\ cmd' = c
    /\ verbose' = FALSE
    /\ target' = tgt
    /\ idx' = 1
    /\ log' = <<>>
    /\ LET q == QiitaSync_getInstance(files, file_list)
           root == tgt = <<>> /\ c \in Cmds
           w1 == qsync_init([World(files, remote, nextNew, now) EXCEPT !.fault = flt], e)
           w2 == IF w1.raised = NoError /\ root THEN qiita_get_item_list(w1) ELSE w1
       IN  /\ fault' = w2.fault
           /\ out' = ErrorLine(w2.raised)
           /\ IF w2.raised # NoError
              THEN /\ pc' = "idle"
                   /\ result' = w2.raised
                   /\ runs' = runs + 1
                   /\ qsync' = QiitaSync_getInstance(<<>>, <<>>)
                   /\ q_atcl_dict' = <<>>
                   /\ todoR' = <<>>
                   /\ sel' = <<>>
              ELSE /\ UNCHANGED <<result, runs>>
                   /\ qsync' = q
                   /\ IF root
                      THEN /\ pc' = "run"
                           /\ q_atcl_dict' =
                                 [id \in DOMAIN remote |-> QiitaArticle_fromApi(id, remote[id])]
                           /\ todoR' = SelectSeq(ListOrder, LAMBDA id : id \in DOMAIN remote)
                           /\ sel' = <<>>
                      ELSE /\ pc' = IF c \in Cmds THEN "narrow" ELSE "batch"
                           /\ q_atcl_dict' = <<>>
                           /\ todoR' = <<>>
                           /\ sel' = IF c \in Cmds THEN NarrowSelection(q, tgt)
                                     ELSE QiitaSync_getArticleByPath(q, tgt)
    /\ UNCHANGED <<files, remote, nextNew, now, prev>>
    /\ UNCHANGED text

\* an exception was caught: the loop goes on with what was done so far
Resume(w) == [w EXCEPT !.raised = NoError, !.calls = <<>>, !.writes = {}, !.removes = {}]

Logged(entry, w) ==
    [entry EXCEPT !.calls = w.calls, !.writes = w.writes,
                  !.removes = w.removes, !.raised = w.raised]

\* what one iteration of a loop leaves behind
Commit(w, entries) ==
    /\ files' = w.files
    /\ remote' = w.remote
    /\ nextNew' = w.nextNew
    /\ now' = w.now
    /\ fault' = w.fault
    /\ out' = out \o w.out \o ErrorLine(w.raised)
    /\ log' = log \o entries
    /\ IF w.raised # NoError
       THEN pc' = "idle" /\ result' = w.raised /\ runs' = runs + 1
       ELSE UNCHANGED <<pc, result, runs>>

\* second branch of qsync_traverse: the remote item of the next selected
\* article is requested, the article is classified and handed to the
\* handler; an ApplicationFileError raised by the request ("notfound") or
\* by the handler ("except") is caught and the handler is called with
\* QIITA_DELETED; any other failure of the request ("query") ends the loop
NarrowStep ==
    /\ pc = "narrow"
    /\ idx <= Len(sel)
    /\ LET g_atcl == qsync.atcl_path_map[sel[idx]]
           id == g_atcl.data.id
           w1 == IF id = None THEN TheWorld ELSE qiita_get_item(TheWorld, id)
           found == IF id # None /\ w1.raised = NoError
                    THEN [i \in {id} |-> QiitaArticle_fromApi(id, w1.remote[id])]
                    ELSE <<>>
           resp == qsync_get_sync_status(qsync, g_atcl, found)
           tried == w1.raised = NoError
           wt == IF tried THEN Handler(cmd, verbose, w1, resp.status, g_atcl, resp.lq) ELSE w1
           caught == wt.raised = "ApplicationFileError"
           we == IF caught
                 THEN Handler(cmd, verbose,
                              IF tried THEN Resume(wt) ELSE [wt EXCEPT !.raised = NoError],
                              "QIITA_DELETED", g_atcl, <<>>)
                 ELSE wt
       IN  Commit(we,
                  (IF tried THEN <<Logged(Entry("narrow", resp.status, g_atcl), wt)>>
                   ELSE IF ~caught THEN <<Logged(Entry("query", "none", g_atcl), wt)>>
                   ELSE <<>>)
                  \o (IF caught
                      THEN <<Logged(Entry(IF tried THEN "except" ELSE "notfound",
                                          "QIITA_DELETED", g_atcl), we)>>
                      ELSE <<>>))
    /\ idx' = idx + 1
    /\ UNCHANGED <<cmd, verbose, qsync, q_atcl_dict, todoR, prev, target, sel, env>>
    /\ UNCHANGED text

\* qsync_subcommand_download / _upload / _delete: the next selected article;
\* upload and delete catch ApplicationError and print it
BatchStep ==
    /\ pc = "batch"
    /\ idx <= Len(sel)
    /\ LET article == qsync.atcl_path_map[sel[idx]]
           w1 == IF cmd = "download" THEN QiitaSync_download(qsync, TheWorld, article)
                 ELSE IF cmd = "upload" THEN QiitaSync_upload(TheWorld, article)
                 ELSE QiitaSync_delete(TheWorld, article)
           caught == cmd # "download" /\ w1.raised = "ApplicationError"
           we == IF caught
                 THEN [print(w1, Msg("ApplicationError", article)) EXCEPT !.raised = NoError]
                 ELSE w1
       IN  Commit(we, <<Logged(Entry("batch", cmd, article), w1)>>)
    /\ idx' = idx + 1
    /\ UNCHANGED <<cmd, verbose, qsync, q_atcl_dict, todoR, prev, target, sel, env>>
    /\ UNCHANGED text

\* the loop of a narrower target or of a batch is over and qsync_main ends
FinishSel ==
    /\ pc \in {"narrow", "batch"}
    /\ idx > Len(sel)
    /\ pc' = "idle"
    /\ result' = "ok"
    /\ runs' = runs + 1
    /\ UNCHANGED <<files, remote, nextNew, now, cmd, verbose, qsync, q_atcl_dict,
                   idx, todoR, log, out, prev, target, sel, fault, env>>
    /\ UNCHANGED text

\* ---- the worlds of SpecCli: an article at the top, articles in doc, and an
\* article in the sibling directory doc2
CliFile(id, private) == FileRec(QiitaData("A", <<"py">>, id, private), <<Text("x")>>, MaxTime)

CliItem == RemoteItem([title |-> "A", tags |-> <<"py">>, body |-> <<Text("y")>>,
                       private |-> FALSE], 1)

CliFileSets ==
    {(PathA :> CliFile(None, FALSE)) @@ (PathB :> CliFile(idB, FALSE))
         @@ (PathC :> CliFile("q2", FALSE)) :
        idB \in {None, "q1"}}
    \cup
    {(PathB :> CliFile(idB, prB)) @@ (PathD :> CliFile(idD, FALSE)) :
        idB \in {None, "q1"}, prB \in BOOLEAN, idD \in {None, "q2"}}

InitCli ==
    /\ files \in CliFileSets
    /\ remote \in UNION {[S -> {CliItem}] : S \in {{}, {"q2"}, InitIds}}
    /\ nextNew = 1
    /\ now = MaxTime + 1
    /\ runs = 0
    /\ pc = "idle"
    /\ cmd = "none"
    /\ verbose = FALSE
    /\ qsync = QiitaSync_getInstance(<<>>, <<>>)
    /\ q_atcl_dict = <<>>
    /\ idx = 1
    /\ todoR = <<>>
    /\ log = <<>>
    /\ out = <<>>
    /\ result = "none"
    /\ prev = NoRun
    /\ target = <<>>
    /\ sel = <<>>
    /\ fault = NoFault
    /\ env = "ok"
    /\ arg = <<>> /\ res = <<>> /\ op = "none"

NextCli ==
    \/ \E c \in AllCmds, file_list \in FileOrders(DOMAIN files), tgt \in Targets,
          flt \in {NoFault} \cup (0..MaxFault), e \in Envs :
          (e # "ok" => flt = NoFault) /\ Invoke(c, file_list, tgt, flt, e)
    \/ LocalStep
    \/ \E id \in Ids : RemoteStep(id)
    \/ Finish
    \/ NarrowStep
    \/ BatchStep
    \/ FinishSel

SpecCli == InitCli /\ [][NextCli]_vars

\* ================================================================ claims
LogIdx == 1..Len(log)

\* the local article of a handler call of the first loop, as qsync_init parsed it
LocalOf(e) == qsync.atcl_path_map[e.path]

\* its remote counterpart brought to the local form at the path of the article
RemoteOf(e) ==
    QiitaSync_toGitHubArticle(qsync, q_atcl_dict[e.id], e.path, <<>>)

HasRemote(e) == e.id # None /\ e.id \in DOMAIN q_atcl_dict

\* title, tags and canonical body agree
SameContent(a, b) ==
    /\ a.data.title = b.data.title
    /\ QiitaTags_eq(a.data.tags, b.data.tags)
    /\ to_normalize_body(a.body) = to_normalize_body(b.body)

StatusBy(e, equal) ==
    CASE e.id = None -> "GITHUB_ONLY"
      [] e.id # None /\ ~HasRemote(e) -> "QIITA_DELETED"
      [] HasRemote(e) /\ equal -> "SYNC"
      [] HasRemote(e) /\ ~equal /\ LocalOf(e).timestamp > RemoteOf(e).timestamp -> "GITHUB_NEW"
      [] HasRemote(e) /\ ~equal /\ LocalOf(e).timestamp < RemoteOf(e).timestamp -> "QIITA_NEW"
      [] HasRemote(e) /\ ~equal /\ LocalOf(e).timestamp = RemoteOf(e).timestamp -> "CONFLICT"

\* C1 (as stated): every local article is given exactly the state of the
\* decision list in which the local article, brought to the local form, is
\* compared with the remote article brought to the local form.
C1_ClassificationLocalFormOfBoth ==
    \A i \in LogIdx :
        log[i].phase = "local" =>
            log[i].status =
                StatusBy(log[i],
                         HasRemote(log[i]) /\
                         SameContent(QiitaSync_toGitHubArticle(
                                         qsync, LocalOf(log[i]), log[i].path, <<>>),
                                     RemoteOf(log[i])))

\* C1 (amended): every handler call carries exactly one of the seven states;
\* a remote article without local file is REMOTE_ONLY, and a local article is
\* given the state of the decision list in which the local article as parsed
\* from its file, without link rewriting, is compared with the remote article
\* brought to the local form at the path of the local article.
C1_Classification ==
    \A i \in LogIdx :
        /\ log[i].status \in {"GITHUB_ONLY", "QIITA_ONLY", "GITHUB_NEW", "QIITA_NEW",
                              "QIITA_DELETED", "SYNC", "CONFLICT"}
        /\ log[i].phase = "remote" => log[i].status = "QIITA_ONLY"
        /\ log[i].phase = "local" =>
               log[i].status =
                   StatusBy(log[i],
                            HasRemote(log[i]) /\ SameContent(LocalOf(log[i]), RemoteOf(log[i])))

\* a conflict has been dispatched: equal timestamps, unequal content
C1_Witness ==
    \E i \in LogIdx :
        /\ log[i].phase = "local" /\ log[i].status = "CONFLICT"
        /\ LocalOf(log[i]).timestamp = RemoteOf(log[i]).timestamp

\* C2: content equality takes precedence over the timestamps: a local article
\* whose title, tags and canonical body agree with those of its remote article
\* in local form is IN_SYNC whatever the timestamps, the ids and the private
\* flags are, and LOCAL_NEWER, REMOTE_NEWER and CONFLICT are given only to
\* articles whose content differs.
C2_ContentBeforeTimestamps ==
    \A i \in LogIdx :
        (log[i].phase = "local" /\ HasRemote(log[i])) =>
            /\ SameContent(LocalOf(log[i]), RemoteOf(log[i])) => log[i].status = "SYNC"
            /\ log[i].status \in {"GITHUB_NEW", "QIITA_NEW", "CONFLICT"} =>
                   ~SameContent(LocalOf(log[i]), RemoteOf(log[i]))

\* an article is IN_SYNC although the remote timestamp is the later one and the
\* private flags differ
C2_Witness ==
    \E i \in LogIdx :
        /\ log[i].phase = "local" /\ log[i].status = "SYNC"
        /\ LocalOf(log[i]).timestamp < RemoteOf(log[i]).timestamp
        /\ LocalOf(log[i]).data.private # RemoteOf(log[i]).data.private

\* ids carried by the local files qsync_init parsed
LocalIds == {qsync.atcl_path_map[p].data.id : p \in DOMAIN qsync.atcl_path_map} \ {None}

Finished == pc = "idle" /\ result = "ok"

\* C3: in a pass over the repository root no handler call is repeated, a remote
\* article is dispatched as REMOTE_ONLY only when no local file carries its
\* id, a local article is dispatched with the state of the classification, and
\* when the pass has ended every local article and every listed remote article
\* without local file has been dispatched exactly once.
C3_FullPassDispatch ==
    /\ \A i, j \in LogIdx :
           (log[i].phase = log[j].phase /\ log[i].path = log[j].path) => i = j
    /\ \A i \in LogIdx :
           /\ log[i].phase = "remote" =>
                  /\ log[i].status = "QIITA_ONLY"
                  /\ log[i].id \in DOMAIN q_atcl_dict \ LocalIds
           /\ log[i].phase = "local" =>
                  /\ log[i].path \in DOMAIN qsync.atcl_path_map
                  /\ log[i].status # "QIITA_ONLY"
                  /\ log[i].status =
                         qsync_get_sync_status(qsync, LocalOf(log[i]), q_atcl_dict).status
    /\ Finished =>
           /\ \A p \in DOMAIN qsync.atcl_path_map :
                  \E i \in LogIdx : log[i].phase = "local" /\ log[i].path = p
           /\ \A id \in DOMAIN q_atcl_dict \ LocalIds :
                  \E i \in LogIdx : log[i].phase = "remote" /\ log[i].id = id

\* a finished pass that dispatched a local article and a remote-only article
\* and skipped a remote article whose id a local file carries
C3_Witness ==
    /\ Finished
    /\ \E i, j \in LogIdx : log[i].phase = "local" /\ log[j].phase = "remote"
    /\ DOMAIN q_atcl_dict \cap LocalIds # {}

\* the state a new invocation would give the file at a path
Reclassify(path) ==
    qsync_get_sync_status(
        QiitaSync_getInstance(files, SelectSeq(AllPaths, LAMBDA p : p \in DOMAIN files)),
        GitHubArticle_fromFile(files, path),
        [id \in DOMAIN remote |-> QiitaArticle_fromApi(id, remote[id])]).status

Dispatches == Len(log') = Len(log) + 1
Call == log'[Len(log')]

\* what QiitaSync.upload sends for the local article of a call
Uploaded(e) ==
    RemoteItem(QiitaArticle_toApi(QiitaSync_toQiitaArticle(files, LocalOf(e))), now)

\* the article the second loop hands over for a remote item
MaterializedOf(e) ==
    qsync_to_github_article(qsync, q_atcl_dict[e.id],
                            [i \in DOMAIN q_atcl_dict |-> TmpPath(i)])

PatchOnly(e) == e.calls = <<[method |-> "PATCH", id |-> e.id]>>

\* the remote item of the call is replaced by the global form of the local
\* article and no file changes
UploadsLocal(e) ==
    /\ e.raised = NoError
    /\ PatchOnly(e)
    /\ remote' = [remote EXCEPT ![e.id] = Uploaded(e)]
    /\ files' = files

\* the file of the call is overwritten by the local form of the remote
\* article and no remote item changes
OverwritesLocal(e) ==
    /\ e.raised = NoError
    /\ e.calls = <<>>
    /\ remote' = remote
    /\ files' = [files EXCEPT ![e.path] = FileRec(RemoteOf(e).data, RemoteOf(e).body, now)]

\* C5: the sync dispatch of LOCAL_NEWER replaces the remote item by the global
\* form of the local article and leaves every file as it is; of REMOTE_NEWER
\* overwrites the file of the article with the local form of the remote
\* article and sends no mutating request; of REMOTE_ONLY writes exactly one
\* file, one that did not exist, holding the remote article, and sends no
\* mutating request.
C5_SyncMutatingStates ==
    [][(cmd = "sync" /\ Dispatches) =>
          /\ Call.status = "GITHUB_NEW" => UploadsLocal(Call)
          /\ Call.status = "QIITA_NEW" => OverwritesLocal(Call)
          /\ Call.status = "QIITA_ONLY" =>
                 /\ Call.raised = NoError
                 /\ Call.calls = <<>>
                 /\ remote' = remote
                 /\ Call.path \notin DOMAIN files
                 /\ DOMAIN files' = DOMAIN files \cup {Call.path}
                 /\ \A p \in DOMAIN files : files'[p] = files[p]
                 /\ files'[Call.path] =
                        FileRec(MaterializedOf(Call).data, MaterializedOf(Call).body, now)
                 /\ files'[Call.path].data.id = Call.id]_vars

\* sync has uploaded a LOCAL_NEWER article whose link to another article went
\* out as the article URL
C5_Witness ==
    \E i \in LogIdx :
        /\ cmd = "sync" /\ log[i].status = "GITHUB_NEW" /\ PatchOnly(log[i])
        /\ log[i].id \in DOMAIN remote
        /\ \E k \in 1..Len(remote[log[i].id].body) :
               /\ remote[log[i].id].body[k].kind = "link"
               /\ remote[log[i].id].body[k].tgt.t = "qiita"
               /\ LocalOf(log[i]).body[k + 1].tgt.t = "rel"

\* C6: the sync dispatch removes no file and no remote item in any state, and
\* in REMOTE_DELETED, IN_SYNC and CONFLICT it changes no file and no remote
\* item and sends no request.
C6_SyncNotDestructive ==
    [][(cmd = "sync" /\ Dispatches) =>
          /\ DOMAIN files \subseteq DOMAIN files'
          /\ DOMAIN remote \subseteq DOMAIN remote'
          /\ Call.removes = {}
          /\ \A k \in 1..Len(Call.calls) : Call.calls[k].method # "DELETE"
          /\ Call.status \in {"QIITA_DELETED", "SYNC", "CONFLICT"} =>
                 /\ files' = files
                 /\ remote' = remote
                 /\ Call.calls = <<>>
                 /\ Call.writes = {}]_vars

\* sync has met a conflict and a deleted remote item in one pass
C6_Witness ==
    /\ cmd = "sync"
    /\ \E i, j \in LogIdx : log[i].status = "CONFLICT" /\ log[j].status = "QIITA_DELETED"

\* C7: no step of a check invocation changes a file or a remote item, and no
\* handler call of it sends a request, writes a file or removes a file.
C7_CheckReadOnly ==
    [][cmd' = "check" =>
          /\ files' = files
          /\ remote' = remote
          /\ Dispatches =>
                 Call.calls = <<>> /\ Call.writes = {} /\ Call.removes = {}]_vars

\* a finished check pass that reported a local-only article and a remote-only
\* article
C7_Witness ==
    /\ Finished /\ cmd = "check"
    /\ \E i, j \in LogIdx : log[i].status = "GITHUB_ONLY" /\ log[j].status = "QIITA_ONLY"
    /\ Len(out) >= 2

\* C8 (as stated): after the prune dispatch of an article whose private flag
\* is true, whatever its state, neither its file nor its remote item exists.
C8_PrivatePurged ==
    \A i \in LogIdx :
        (cmd = "prune" /\ log[i].private) =>
            /\ log[i].path \notin DOMAIN files
            /\ log[i].id # None => log[i].id \notin DOMAIN remote

\* C9: the prune dispatch of an article that is not private: LOCAL_ONLY removes
\* the file and sends nothing; REMOTE_ONLY deletes the remote item and creates
\* no file; LOCAL_NEWER and CONFLICT upload the local article; REMOTE_NEWER
\* overwrites the file from the remote article; REMOTE_DELETED removes the
\* file; IN_SYNC changes nothing.
C9_PruneTable ==
    [][(cmd = "prune" /\ Dispatches /\ ~Call.private) =>
          LET removesFile ==
                  /\ Call.raised = NoError
                  /\ Call.calls = <<>>
                  /\ remote' = remote
                  /\ Call.path \in DOMAIN files
                  /\ files' = [p \in DOMAIN files \ {Call.path} |-> files[p]]
          IN  /\ Call.status = "GITHUB_ONLY" => removesFile
              /\ Call.status = "QIITA_DELETED" => removesFile
              /\ Call.status = "QIITA_ONLY" =>
                     /\ Call.raised = NoError
                     /\ Call.calls = <<[method |-> "DELETE", id |-> Call.id]>>
                     /\ Call.id \in DOMAIN remote
                     /\ remote' = [i \in DOMAIN remote \ {Call.id} |-> remote[i]]
                     /\ files' = files
              /\ Call.status = "GITHUB_NEW" => UploadsLocal(Call)
              /\ Call.status = "CONFLICT" => UploadsLocal(Call)
              /\ Call.status = "QIITA_NEW" => OverwritesLocal(Call)
              /\ Call.status = "SYNC" =>
                     files' = files /\ remote' = remote /\ Call.calls = <<>>]_vars

\* prune has resolved a conflict of an article that is not private by the
\* upload of the local article
C9_Witness ==
    \E i \in LogIdx :
        /\ cmd = "prune" /\ ~log[i].private /\ log[i].status = "CONFLICT"
        /\ PatchOnly(log[i])

\* C10 (as stated): a check pass that follows a sync pass which ended without
\* error and met neither REMOTE_DELETED nor CONFLICT classifies every local
\* article IN_SYNC, meets no REMOTE_ONLY article and, when not verbose, prints
\* nothing.
C10_SyncConverges ==
    (/\ Finished /\ cmd = "check"
     /\ prev.cmd = "sync" /\ prev.result = "ok"
     /\ prev.statuses \cap {"QIITA_DELETED", "CONFLICT"} = {}) =>
        /\ \A i \in LogIdx : log[i].status = "SYNC"
        /\ ~verbose => out = <<>>

\* ------------------------------------------------------ claims on SpecCli
\* path is the target or lies in the directory tree below it
IsUnder(path, tgt) == Len(tgt) <= Len(path) /\ SubSeq(path, 1, Len(tgt)) = tgt

\* C11 (as stated): when the target is narrower than the git directory, every
\* article a handler or a download, upload or delete is applied to has a path
\* equal to the target or nested under it; an article of a sibling directory
\* whose name starts with the name of the target is not processed.
C11_TraversalScope ==
    target # <<>> => \A i \in LogIdx : IsUnder(log[i].path, target)

\* a narrower target handled by qsync_traverse
Narrow == cmd \in Cmds /\ target # <<>>

\* C12 (as stated): in a traversal of a narrower target every selected
\* article with an id has its own remote item requested; when the answer is
\* 404 the handler is called for the article with QIITA_DELETED, the
\* invocation does not end there, and once it is over every selected article
\* has been handed to the handler.
C12_NotFoundNotFatal ==
    Narrow =>
        /\ \A i \in LogIdx :
               /\ (log[i].phase \in {"narrow", "notfound"} /\ log[i].id # None) =>
                      /\ log[i].calls # <<>>
                      /\ log[i].calls[1] = [method |-> "GET", id |-> log[i].id]
               /\ log[i].phase = "notfound" =>
                      log[i].status = "QIITA_DELETED" /\ log[i].raised = NoError
        /\ (pc = "idle" /\ fault = NoFault /\ sel # <<>>
               /\ \E i \in LogIdx : log[i].phase = "notfound") =>
              \A k \in 1..Len(sel) : \E i \in LogIdx : log[i].path = sel[k]

\* C13: an invocation whose environment has no access token, no GitHub
\* remote URL, no resolvable branch or no authenticated account id ends in
\* qsync_init with a printed ApplicationError: no handler and no download,
\* upload or delete is called, and the files and the remote items are as
\* they were.
C13_ConfigErrorBeforeMutation ==
    [][env' # "ok" =>
          /\ pc' = "idle" /\ result' = "ApplicationError"
          /\ out' = ErrorLine("ApplicationError")
          /\ log' = <<>>
          /\ files' = files /\ remote' = remote /\ nextNew' = nextNew]_vars

\* a mutating subcommand was refused for its configuration although there
\* was work to do
C13_Witness ==
    /\ env \in {"no token", "not GitHub", "no branch", "no account"}
    /\ cmd \in {"sync", "prune", "upload", "delete"}
    /\ runs = 1 /\ result = "ApplicationError"
    /\ \E p \in DOMAIN files : files[p].data.id = None

\* a download, upload or delete of the selected articles
Batch == cmd \in {"download", "upload", "delete"}

\* C14 (as stated): when the service answers every request, a download,
\* upload or delete over the selected articles ends normally with every
\* selected article processed, whether or not the remote item of one of them
\* is missing or, on delete, one of them has no id.
C14_MissingItemKeepsBatch ==
    (Batch /\ env = "ok" /\ fault = NoFault /\ pc = "idle" /\ runs > 0) =>
        /\ result = "ok"
        /\ \A k \in 1..Len(sel) : \E i \in LogIdx : log[i].path = sel[k]

\* a request of the call failed with an HTTP error other than 404
FailedIn(e) == \E j \in 1..Len(e.calls) : e.calls[j].method = "FAILED"

\* C15: a request that fails with an HTTP error other than 404 ends the
\* invocation with a printed HTTPError.  The failing request is the last
\* thing the invocation does: no request follows it, the call it belongs to
\* writes and removes no file, no further article is processed, and the files
\* and remote items are left as the earlier calls made them.
C15_TransportErrorAborts ==
    [][/\ \A i \in 1..Len(log') :
              FailedIn(log'[i]) =>
                  /\ i = Len(log')
                  /\ log'[i].calls[Len(log'[i].calls)].method = "FAILED"
                  /\ log'[i].raised = "HTTPError"
                  /\ log'[i].writes = {} /\ log'[i].removes = {}
                  /\ pc' = "idle" /\ result' = "HTTPError"
                  /\ out' # <<>> /\ <<out'[Len(out')]>> = ErrorLine("HTTPError")
       /\ (Len(log') > Len(log) /\ FailedIn(log'[Len(log')])) =>
              files' = files /\ remote' = remote /\ nextNew' = nextNew
       /\ (pc = "idle" /\ pc' = "idle" /\ runs' = runs + 1 /\ env' = "ok") =>
              /\ result' = "HTTPError" /\ out' = ErrorLine("HTTPError")
              /\ log' = <<>>
              /\ files' = files /\ remote' = remote /\ nextNew' = nextNew]_vars

\* the request of the second article failed after the first article had been
\* changed on the service, and the change is still there
C15_Witness ==
    /\ pc = "idle" /\ result = "HTTPError"
    /\ Len(log) = 2 /\ FailedIn(log[2])
    /\ \E j \in 1..Len(log[1].calls) :
          /\ log[1].calls[j].method = "PATCH"
          /\ log[1].calls[j].id \in DOMAIN remote
          /\ remote[log[1].calls[j].id].updated_at > MaxTime

\* ================================================= the article file as text
\* A text is a sequence of tokens: the line break, the blank, the
\* punctuation of the metadata block, and words.  The delimiters "<!--" and
\* "-->" and the words are single tokens; tags have no versions.
NL == "\n"
WS == {" ", NL, "\t"}
Punct == {":", ",", "#", "<!--", "-->"}

IsWord(c) == c \notin WS \cup Punct

\* str.lower() on the tokens of the model
LowerTok(c) == IF c = "A" THEN "a" ELSE c

\* the order of str comparison on the characters of tag names
Rank(c) == CASE c = " " -> 0 [] c = "A" -> 1 [] c = "a" -> 2 [] c = "b" -> 3 [] OTHER -> 4

RECURSIVE StrLess(_, _)
StrLess(x, y) ==
    IF y = <<>> THEN FALSE
    ELSE IF x = <<>> THEN TRUE
    ELSE IF Head(x) = Head(y) THEN StrLess(Tail(x), Tail(y))
    ELSE Rank(Head(x)) < Rank(Head(y))

\* str.split(sep): the pieces between the separators, empty pieces included
RECURSIVE split(_, _)
split(t, sep) ==
    IF \A i \in 1..Len(t) : t[i] # sep THEN <<t>>
    ELSE LET i == CHOOSE i \in 1..Len(t) : t[i] = sep /\ \A j \in 1..(i - 1) : t[j] # sep
         IN  <<SubSeq(t, 1, i - 1)>> \o split(SubSeq(t, i + 1, Len(t)), sep)

\* str.splitlines(): no line for an empty text, none after a final line break
splitlines(t) ==
    IF t = <<>> THEN <<>>
    ELSE LET pieces == split(t, NL)
         IN  IF t[Len(t)] = NL THEN SubSeq(pieces, 1, Len(pieces) - 1) ELSE pieces

\* sep.join(pieces)
RECURSIVE join(_, _)
join(pieces, sep) ==
    IF pieces = <<>> THEN <<>>
    ELSE IF Len(pieces) = 1 THEN pieces[1]
    ELSE pieces[1] \o <<sep>> \o join(Tail(pieces), sep)

RECURSIVE lstrip(_)
lstrip(t) == IF t # <<>> /\ Head(t) \in WS THEN lstrip(Tail(t)) ELSE t

RECURSIVE rstrip(_)
rstrip(t) ==
    IF t # <<>> /\ t[Len(t)] \in WS THEN rstrip(SubSeq(t, 1, Len(t) - 1)) ELSE t

\* str.strip()
strip(t) == lstrip(rstrip(t))

\* markdown_normalize: trailing blanks leave every line, the lines are joined
\* by single line breaks
markdown_normalize(t) ==
    LET lines == splitlines(t)
    IN  join([i \in 1..Len(lines) |-> rstrip(lines[i])], NL)

\* sorted() on tag names
RECURSIVE insert(_, _)
insert(names, x) ==
    IF names = <<>> THEN <<x>>
    ELSE IF StrLess(x, Head(names)) THEN <<x>> \o names
    ELSE <<Head(names)>> \o insert(Tail(names), x)

RECURSIVE sorted(_)
sorted(names) == IF names = <<>> THEN <<>> ELSE insert(sorted(Tail(names)), Head(names))

\* QiitaTags.fromString: the pieces between the commas, as they are, sorted
QiitaTags_fromString(t) == sorted(split(t, ","))

\* QiitaTags.fromApi
QiitaTags_fromApi(names) == sorted(names)

\* QiitaTags.__str__
QiitaTags_str(tags) == join(tags, ",")

\* str2bool
str2bool(value) ==
    value # <<>> /\ value \in {<<"y">>, <<"yes">>, <<"t">>, <<"true">>, <<"on">>, <<"1">>}

\* QiitaData.__str__: the lines of the metadata block; id holds <<>> for None
QiitaData_str(data) ==
    join(<<<<"title", ":", " ", " ", " ">> \o data.title,
           <<"tags", ":", " ", " ", " ", " ">> \o QiitaTags_str(data.tags)>>
         \o (IF data.id # <<>> THEN <<<<"id", ":", " ", " ", " ", " ", " ", " ">> \o data.id>>
             ELSE <<>>)
         \o <<<<"private", ":", " ", IF data.private THEN "true" ELSE "false">>>>,
         NL)

\* the filter of QiitaData.fromString: ^\s*\w+\s*:.*\S
IsDataLine(line) ==
    \E i \in 1..Len(line) :
        /\ line[i] = ":"
        /\ \E k \in 1..(i - 1) :
              /\ IsWord(line[k])
              /\ \A j \in 1..(i - 1) :
                     /\ j < k => line[j] \in WS \/ \A m \in j..k : IsWord(line[m])
                     /\ j > k => line[j] \in WS \/ \A m \in k..j : IsWord(line[m])
        /\ \E j \in (i + 1)..Len(line) : line[j] \notin WS

\* QiitaData.fromString: each kept line is split at its first colon, key and
\* value are stripped, a later line overrides an earlier one with its key
QiitaData_fromString(t, default_title, default_tags) ==
    LET all == splitlines(t)
        lines == SelectSeq(all, IsDataLine)
        key(i) == strip(split(lines[i], ":")[1])
        value(i) == strip(SubSeq(lines[i], Len(split(lines[i], ":")[1]) + 2, Len(lines[i])))
        has(k) == \E i \in 1..Len(lines) : key(i) = <<k>>
        get(k) == value(CHOOSE i \in 1..Len(lines) :
                            key(i) = <<k>> /\ \A j \in (i + 1)..Len(lines) : key(j) # <<k>>)
    IN  [title |-> IF has("title") THEN get("title") ELSE default_title,
         tags |-> QiitaTags_fromString(IF has("tags") THEN get("tags") ELSE default_tags),
         id |-> IF has("id") THEN get("id") ELSE <<>>,
         private |-> IF has("private") THEN str2bool(get("private")) ELSE FALSE]

DEFAULT_TITLE == <<"No", " ", "Title">>
DEFAULT_TAGS == <<"No", " ", "Tag">>

\* the first line matching ^#+\s+(.*)$, its group stripped; <<>> for None
qiita_get_first_section(body) ==
    LET lines == splitlines(body)
        hashes(l) == CHOOSE k \in 0..Len(l) :
                         /\ \A j \in 1..k : l[j] = "#"
                         /\ k < Len(l) => l[k + 1] # "#"
        matches(l) == hashes(l) > 0 /\ hashes(l) < Len(l) /\ l[hashes(l) + 1] \in WS
        hit == {i \in 1..Len(lines) : matches(lines[i])}
    IN  IF hit = {} THEN <<>>
        ELSE LET l == lines[CHOOSE i \in hit : \A j \in hit : i <= j]
             IN  strip(SubSeq(l, hashes(l) + 1, Len(l)))

\* the first line that starts with a non-blank, up to its first blank
qiita_get_first_line(body) ==
    LET lines == splitlines(body)
        hit == {i \in 1..Len(lines) : lines[i] # <<>> /\ lines[i][1] \notin WS}
    IN  IF hit = {} THEN <<>>
        ELSE LET l == lines[CHOOSE i \in hit : \A j \in hit : i <= j]
             IN  split(l, " ")[1]

\* qiita_get_temporary_title: an empty result counts as none
qiita_get_temporary_title(body) ==
    IF qiita_get_first_section(body) # <<>> THEN qiita_get_first_section(body)
    ELSE IF qiita_get_first_line(body) # <<>> THEN qiita_get_first_line(body)
    ELSE DEFAULT_TITLE

qiita_get_temporary_tags(body) == DEFAULT_TAGS

\* HEADER_REGEX.match: blanks, "<!--", one blank, the shortest text that is
\* followed by a blank and "-->", and the rest of the file
HEADER_REGEX_match(t) ==
    LET k == Len(t) - Len(lstrip(t))
        ends == {j \in (k + 4)..Len(t) : t[j] = "-->" /\ t[j - 1] \in WS}
    IN  IF k + 2 <= Len(t) /\ t[k + 1] = "<!--" /\ t[k + 2] \in WS /\ ends # {}
        THEN LET j == CHOOSE j \in ends : \A i \in ends : j <= i
             IN  [matched |-> TRUE, group1 |-> SubSeq(t, k + 3, j - 2),
                  group2 |-> SubSeq(t, j + 1, Len(t))]
        ELSE [matched |-> FALSE, group1 |-> <<>>, group2 |-> <<>>]

\* GitHubArticle.toText
GitHubArticle_toText(article) ==
    <<"<!--", NL>> \o QiitaData_str(article.data) \o <<NL, "-->", NL>> \o article.body

\* GitHubArticle.fromFile on the text of the file
GitHubArticle_fromText(t) ==
    LET m == HEADER_REGEX_match(t)
        body == IF m.matched THEN m.group2 ELSE t
    IN  [data |-> QiitaData_fromString(IF m.matched THEN m.group1 ELSE <<>>,
                                       qiita_get_temporary_title(body),
                                       qiita_get_temporary_tags(body)),
         body |-> markdown_normalize(body)]

\* QiitaTags equality on names that are texts: element by element, lowered
QiitaTags_eq_text(a, b) ==
    /\ Len(a) = Len(b)
    /\ \A i \in 1..Len(a) :
          /\ Len(a[i]) = Len(b[i])
          /\ \A j \in 1..Len(a[i]) : LowerTok(a[i][j]) = LowerTok(b[i][j])

\* GitHubArticle.__eq__ on texts: title, tags, stripped body
GitHubArticle_eq_text(a, b) ==
    /\ a.data.title = b.data.title
    /\ QiitaTags_eq_text(a.data.tags, b.data.tags)
    /\ strip(a.body) = strip(b.body)

\* ------------------------------------------------ SpecSerial: save and load
\* no invocation has run
AtRest ==
    /\ nextNew = 1 /\ now = MaxTime + 1
    /\ runs = 0 /\ pc = "idle" /\ cmd = "none" /\ verbose = FALSE
    /\ q_atcl_dict = <<>>
    /\ idx = 1 /\ todoR = <<>> /\ log = <<>> /\ out = <<>> /\ result = "none"
    /\ prev = NoRun /\ target = <<>> /\ sel = <<>> /\ fault = NoFault
    /\ env = "ok"

\* the sync engine at rest on an empty repository
Idle ==
    /\ files = <<>> /\ remote = <<>>
    /\ qsync = QiitaSync_getInstance(<<>>, <<>>)
    /\ AtRest

RECURSIVE SeqsUpTo(_, _)
SeqsUpTo(S, n) ==
    IF n = 0 THEN {<<>>}
    ELSE LET shorter == SeqsUpTo(S, n - 1)
         IN  shorter \cup {Append(q, x) : q \in {r \in shorter : Len(r) = n - 1}, x \in S}

TagNames == {<<"a">>, <<"b">>, <<"A">>}

\* a tag as an author types it between the commas
TypedTags == TagNames \cup {<<" ">> \o n : n \in TagNames} \cup {n \o <<" ">> : n \in TagNames}

\* the value of a tags line: up to MaxTags tags, or no tags line (<<>>)
TypedTagLines == {join(q, ",") : q \in SeqsUpTo(TypedTags, MaxTags)}

TypedTitles == {<<>>, <<"a">>, <<"A", " ", "b", ":", "a">>}

TypedBodies ==
    {<<>>, <<"#", " ", "a", NL>>, <<"a", " ", "b", " ", NL, NL, "b", NL>>}

\* an article file as its author writes it: a metadata block with the lines
\* the author chose to give, then the body
TypedFile(title, tags, id, private, body) ==
    <<"<!--", NL>>
    \o (IF title # <<>> THEN <<"title", ":", " ">> \o title \o <<NL>> ELSE <<>>)
    \o (IF tags # <<>> THEN <<"tags", ":", " ">> \o tags \o <<NL>> ELSE <<>>)
    \o (IF id # <<>> THEN <<"id", ":", " ">> \o id \o <<NL>> ELSE <<>>)
    \o (IF private # <<>> THEN <<"private", ":", " ">> \o private \o <<NL>> ELSE <<>>)
    \o <<"-->", NL>> \o body

TypedFiles ==
    {TypedFile(title, tags, id, private, body) :
        title \in TypedTitles, tags \in TypedTagLines, id \in {<<>>, <<"q1">>},
        private \in {<<>>, <<"true">>, <<"false">>}, body \in TypedBodies}

\* QiitaData.fromApi with QiitaArticle.fromApi: an item as Qiita returns it
ApiTitles == {<<"a">>, <<"a", " ", "-->", " ", "b">>}

ApiArticles ==
    {[data |-> [title |-> title, tags |-> QiitaTags_fromApi(tags), id |-> <<"q1">>,
                private |-> private],
      body |-> markdown_normalize(body)] :
        title \in ApiTitles, tags \in SeqsUpTo(TagNames, MaxTags) \ {<<>>},
        private \in BOOLEAN, body \in TypedBodies}

\* the article is one the program holds: parsed from a file of the
\* repository, or made of a Qiita item
InitSerial ==
    /\ Idle
    /\ arg \in {GitHubArticle_fromText(t) : t \in TypedFiles} \cup ApiArticles
    /\ res = <<>>
    /\ op = "none"

\* qsync_save_github_article: the file receives toText of the article
Save ==
    /\ op = "none"
    /\ res' = GitHubArticle_toText(arg)
    /\ op' = "toText"
    /\ UNCHANGED <<arg, engine>>

\* GitHubArticle.fromFile on the file just written
Load ==
    /\ op = "toText"
    /\ res' = GitHubArticle_fromText(res)
    /\ op' = "fromFile"
    /\ UNCHANGED <<arg, engine>>

NextSerial == Save \/ Load

SpecSerial == InitSerial /\ [][NextSerial]_vars

\* C16: an article that was written to its file and parsed again equals the
\* original by Article equality and has the same id and the same private
\* flag.
C16_SerializationRoundTrip ==
    op = "fromFile" =>
        /\ GitHubArticle_eq_text(res, arg)
        /\ res.data.id = arg.data.id
        /\ res.data.private = arg.data.private

\* ======================================================= Markdown segmenter
\* Here a text is a sequence of characters.
\* the backtick
BT == "bt"

Max(S) == CHOOSE x \in S : \A y \in S : y <= x
Min(S) == CHOOSE x \in S : \A y \in S : x <= y

\* the number of backticks that start at position i
RECURSIVE Run(_, _)
Run(t, i) == IF i <= Len(t) /\ t[i] = BT THEN 1 + Run(t, i + 1) ELSE 0

RECURSIVE Concat(_)
Concat(pieces) == IF pieces = <<>> THEN <<>> ELSE Head(pieces) \o Concat(Tail(pieces))

\* re.match of the filters: backticks only, at least n of them, from the
\* start to the end, where the end is also before a final line break
OnlyTicks(elm, n) ==
    LET ticks == IF elm # <<>> /\ elm[Len(elm)] = NL THEN SubSeq(elm, 1, Len(elm) - 1) ELSE elm
    IN  Len(ticks) >= n /\ \A j \in 1..Len(ticks) : ticks[j] = BT

\* CODE_INLINE_REGEX with a fence of k backticks at position i: the lengths
\* of content without line break that the same fence follows
InlineCloses(t, i, k) ==
    {m \in 0..(Len(t) - i - 2 * k + 1) :
        /\ \A j \in 0..(m - 1) : t[i + k + j] # NL
        /\ \A j \in 0..(k - 1) : t[i + k + m + j] = BT}

\* CODE_INLINE_REGEX at position i: the longest fence that finds a closing
\* fence, with the shortest content; len 0 is no match
CODE_INLINE_REGEX_at(t, i) ==
    LET fences == {k \in 1..Run(t, i) : InlineCloses(t, i, k) # {}}
    IN  IF fences = {} THEN [k |-> 0, len |-> 0]
        ELSE [k |-> Max(fences), len |-> 2 * Max(fences) + Min(InlineCloses(t, i, Max(fences)))]

\* re.split(CODE_INLINE_REGEX, t): the text before each match, the match, its
\* fence, and the text after the last match
RECURSIVE inline_re_split(_)
inline_re_split(t) ==
    LET hits == {i \in 1..Len(t) : CODE_INLINE_REGEX_at(t, i).len > 0}
    IN  IF hits = {} THEN <<t>>
        ELSE LET i == Min(hits)
                 m == CODE_INLINE_REGEX_at(t, i)
             IN  <<SubSeq(t, 1, i - 1), SubSeq(t, i, i + m.len - 1), SubSeq(t, i, i + m.k - 1)>>
                 \o inline_re_split(SubSeq(t, i + m.len, Len(t)))

\* markdown_code_inline_split: the pieces that are neither empty nor
\* backticks only
markdown_code_inline_split(t) ==
    SelectSeq(inline_re_split(t), LAMBDA elm : elm # <<>> /\ ~OnlyTicks(elm, 1))

\* CODE_BLOCK_RAW with a fence of k backticks at position i: the positions
\* of a closing fence that starts a line, with a line break between the two
\* fences before that line; ahead asks for the two line breaks after it
BlockCloses(p, i, k, ahead) ==
    {c \in (i + k + 2)..(Len(p) - k + 1) :
        /\ p[c - 1] = NL
        /\ \E n \in (i + k)..(c - 2) : p[n] = NL
        /\ \A j \in 0..(k - 1) : p[c + j] = BT
        /\ ahead => c + k + 1 <= Len(p) /\ p[c + k] = NL /\ p[c + k + 1] = NL}

\* CODE_BLOCK_RAW at position i: the longest fence of three or more backticks
\* that finds a closing fence, with the nearest one; len 0 is no match
CODE_BLOCK_RAW_at(p, i, ahead) ==
    LET fences == {k \in 3..Run(p, i) : BlockCloses(p, i, k, ahead) # {}}
    IN  IF fences = {} THEN [k |-> 0, len |-> 0]
        ELSE [k |-> Max(fences),
              len |-> Min(BlockCloses(p, i, Max(fences), ahead)) + Max(fences) - i]

\* CODE_BLOCK_REGEX at position i: two line breaks before, two after
CODE_BLOCK_REGEX_at(p, i) ==
    IF i >= 3 /\ p[i - 2] = NL /\ p[i - 1] = NL THEN CODE_BLOCK_RAW_at(p, i, TRUE)
    ELSE [k |-> 0, len |-> 0]

\* CODE_BLOCK_REGEX_2.match(block)
CODE_BLOCK_REGEX_2_match(block) == CODE_BLOCK_RAW_at(block, 1, FALSE).len > 0

\* re.split(CODE_BLOCK_REGEX, p) from position start on
RECURSIVE block_re_split(_, _)
block_re_split(p, start) ==
    LET hits == {i \in start..Len(p) : CODE_BLOCK_REGEX_at(p, i).len > 0}
    IN  IF hits = {} THEN <<SubSeq(p, start, Len(p))>>
        ELSE LET i == Min(hits)
                 m == CODE_BLOCK_REGEX_at(p, i)
             IN  <<SubSeq(p, start, i - 1), SubSeq(p, i, i + m.len - 1), SubSeq(p, i, i + m.k - 1)>>
                 \o block_re_split(p, i + m.len)

\* markdown_code_block_split: the text between two pairs of line breaks is
\* split, the fences that re.split reports are dropped, and the two pairs
\* are taken off the first and the last block
markdown_code_block_split(t) ==
    LET all == SelectSeq(block_re_split(<<NL, NL>> \o t \o <<NL, NL>>, 1),
                         LAMBDA elm : ~OnlyTicks(elm, 3))
        front == IF all[1] = <<NL, NL>> THEN Tail(all)
                 ELSE <<SubSeq(all[1], 3, Len(all[1]))>> \o Tail(all)
        last == front[Len(front)]
    IN  IF last = <<NL, NL>> THEN SubSeq(front, 1, Len(front) - 1)
        ELSE SubSeq(front, 1, Len(front) - 1) \o <<SubSeq(last, 1, Len(last) - 2)>>

\* the segments of markdown_replace_text: a fenced block as it is, any other
\* block split at its inline code
RECURSIVE segments(_)
segments(blocks) ==
    IF blocks = <<>> THEN <<>>
    ELSE (IF CODE_BLOCK_REGEX_2_match(Head(blocks)) THEN <<Head(blocks)>>
          ELSE markdown_code_inline_split(Head(blocks)))
         \o segments(Tail(blocks))

\* ========================================================= Markdown rewriter
\* the tail of both link patterns from the "[" at position i: any text
\* without "]", then "](", a target of one or more characters other than the
\* blank and ")", then the shortest text that ends with ")"
LinkTail(p, i) ==
    LET brackets == {j \in (i + 1)..Len(p) : p[j] = "]"}
        j == Min(brackets)
        bounds == {e \in (j + 2)..Len(p) : p[e] \in {" ", ")"}}
        e == Min(bounds)
        closes == {c \in e..Len(p) : p[c] = ")"}
    IN  IF /\ brackets # {} /\ j + 2 <= Len(p) /\ p[j + 1] = "("
           /\ bounds # {} /\ e > j + 2 /\ closes # {}
        THEN [len |-> Min(closes) - i + 1, from |-> j + 2, to |-> e - 1]
        ELSE [len |-> 0, from |-> 0, to |-> 0]

\* MARKDOWN_LINK_REGEX at position i: a "[" that no "!" precedes
MARKDOWN_LINK_REGEX_at(p, i) ==
    IF p[i] = "[" /\ (i = 1 \/ p[i - 1] # "!") THEN LinkTail(p, i)
    ELSE [len |-> 0, from |-> 0, to |-> 0]

\* MARKDOWN_IMAGE_REGEX at position i: "!" and "["
MARKDOWN_IMAGE_REGEX_at(p, i) ==
    IF p[i] = "!" /\ i < Len(p) /\ p[i + 1] = "["
    THEN LET m == LinkTail(p, i + 1)
         IN  IF m.len > 0 THEN [m EXCEPT !.len = @ + 1] ELSE m
    ELSE [len |-> 0, from |-> 0, to |-> 0]

Transforms == {"wrap", "fixed"}

\* the transform handed to the rewriter: it encloses the target in a pair
\* of marks, or puts a mark in its place; links and images have their own
\* marks
conv(tr, kind, link) ==
    IF tr = "wrap"
    THEN (IF kind = "link" THEN <<"<">> \o link \o <<">">> ELSE <<"{">> \o link \o <<"}">>)
    ELSE (IF kind = "link" THEN <<"L">> ELSE <<"I">>)

\* re.sub of one of the two patterns from position start on: group 2 of
\* every match is replaced by its transform
RECURSIVE re_sub(_, _, _, _)
re_sub(tr, kind, p, start) ==
    LET at(i) == IF kind = "link" THEN MARKDOWN_LINK_REGEX_at(p, i)
                 ELSE MARKDOWN_IMAGE_REGEX_at(p, i)
        hits == {i \in start..Len(p) : at(i).len > 0}
    IN  IF hits = {} THEN SubSeq(p, start, Len(p))
        ELSE LET i == Min(hits)
                 m == at(i)
             IN  SubSeq(p, start, m.from - 1) \o conv(tr, kind, SubSeq(p, m.from, m.to))
                 \o SubSeq(p, m.to + 1, i + m.len - 1) \o re_sub(tr, kind, p, i + m.len)

markdown_replace_link(tr, t) == re_sub(tr, "link", t, 1)

markdown_replace_image(tr, t) == re_sub(tr, "image", t, 1)

\* the function toGitHubArticle and toQiitaArticle hand to
\* markdown_replace_text: links first, then images
to_image_link_to_md_link(tr, t) == markdown_replace_image(tr, markdown_replace_link(tr, t))

\* the inner function of markdown_replace_text: every segment of the block
\* that does not start with inline code is rewritten
replace_inline(tr, block) ==
    LET xs == markdown_code_inline_split(block)
    IN  Concat([i \in 1..Len(xs) |->
                   IF CODE_INLINE_REGEX_at(xs[i], 1).len > 0 THEN xs[i]
                   ELSE to_image_link_to_md_link(tr, xs[i])])

\* markdown_replace_block_text with that function
markdown_replace_block_text(tr, t) ==
    LET blocks == markdown_code_block_split(t)
    IN  Concat([i \in 1..Len(blocks) |->
                   IF CODE_BLOCK_REGEX_2_match(blocks[i]) THEN blocks[i]
                   ELSE replace_inline(tr, blocks[i])])

\* markdown_replace_text
markdown_replace_text(tr, t) == markdown_replace_block_text(tr, markdown_normalize(t))

\* ------------------------------------------- SpecMarkdown: split and rewrite
\* A document is a sequence of parts: literal text, the target of a link,
\* the target of an image.  Its text is the parts in a row.
Lit(s) == [kind |-> "lit", s |-> s]
LinkTarget(s) == [kind |-> "link", s |-> s]
ImageTarget(s) == [kind |-> "image", s |-> s]

TextOf(parts) == Concat([i \in 1..Len(parts) |-> parts[i].s])

\* every text of up to MaxText characters made of backticks, line breaks
\* and a letter
PlainTexts ==
    {[i \in 1..Len(t) |-> Lit(<<t[i]>>)] : t \in SeqsUpTo({BT, NL, "x"}, MaxText)}

ALink == <<Lit(<<"[", "l", "]", "(">>), LinkTarget(<<"t">>), Lit(<<")">>)>>
AnImage == <<Lit(<<"!", "[", "i", "]", "(">>), ImageTarget(<<"u">>), Lit(<<")">>)>>

\* what documents are made of: a link, a link with a title after a blank or
\* after a tab, an image, an image that is the text of a link, a link in
\* inline code, inline code without content, a link in a fenced block, an
\* empty line, a blank
Pieces ==
    {ALink,
     <<Lit(<<"[", "l", "]", "(">>), LinkTarget(<<"t">>), Lit(<<" ", "T", ")">>)>>,
     <<Lit(<<"[", "l", "]", "(">>), LinkTarget(<<"t">>), Lit(<<"\t", "T", ")">>)>>,
     AnImage,
     <<Lit(<<"[">>)>> \o AnImage \o <<Lit(<<"]", "(">>), LinkTarget(<<"t">>), Lit(<<")">>)>>,
     <<Lit(<<BT>>)>> \o ALink \o <<Lit(<<BT>>)>>,
     <<Lit(<<BT, BT>>)>>,
     <<Lit(<<BT, BT, BT, NL>>)>> \o ALink \o <<Lit(<<NL, BT, BT, BT>>)>>,
     <<Lit(<<NL, NL>>)>>,
     <<Lit(<<" ">>)>>}

Docs == {Concat(q) : q \in SeqsUpTo(Pieces, MaxPieces)}

InitMarkdown ==
    /\ Idle
    /\ arg \in PlainTexts \cup Docs
    /\ res = <<>>
    /\ op = "none"

\* markdown_code_block_split on the text
BlockSplit ==
    /\ op = "none"
    /\ res' = markdown_code_block_split(TextOf(arg))
    /\ op' = "block_split"
    /\ UNCHANGED <<arg, engine>>

\* markdown_code_inline_split on every block that is not a fenced block
InlineSplit ==
    /\ op = "block_split"
    /\ res' = segments(res)
    /\ op' = "inline_split"
    /\ UNCHANGED <<arg, engine>>

\* markdown_replace_link on the text
ReplaceLink(tr) ==
    /\ op = "none"
    /\ res' = [tr |-> tr, text |-> markdown_replace_link(tr, TextOf(arg))]
    /\ op' = "replace_link"
    /\ UNCHANGED <<arg, engine>>

\* markdown_replace_image on the text
ReplaceImage(tr) ==
    /\ op = "none"
    /\ res' = [tr |-> tr, text |-> markdown_replace_image(tr, TextOf(arg))]
    /\ op' = "replace_image"
    /\ UNCHANGED <<arg, engine>>

\* markdown_replace_text on the text
ReplaceText(tr) ==
    /\ op = "none"
    /\ res' = [tr |-> tr, text |-> markdown_replace_text(tr, TextOf(arg))]
    /\ op' = "replace_text"
    /\ UNCHANGED <<arg, engine>>

NextMarkdown ==
    \/ BlockSplit
    \/ InlineSplit
    \/ \E tr \in Transforms : ReplaceLink(tr)
    \/ \E tr \in Transforms : ReplaceImage(tr)
    \/ \E tr \in Transforms : ReplaceText(tr)

SpecMarkdown == InitMarkdown /\ [][NextMarkdown]_vars

\* C17: the blocks of the fenced-block split, and the segments after the
\* inline-code split of every prose block, concatenate to the input text.
C17_SegmenterLossless ==
    op \in {"block_split", "inline_split"} => Concat(res) = TextOf(arg)

\* what re.split reports at index i: text between matches, a match, its fence
KindAt(i) == IF i % 3 = 1 THEN "prose" ELSE IF i % 3 = 2 THEN "code" ELSE "fence"

\* the spans of a prose block: inline code, and the prose between
InlineSegments(block) ==
    LET raw == inline_re_split(block)
    IN  SelectSeq([i \in 1..Len(raw) |-> [kind |-> KindAt(i), text |-> raw[i]]],
                  LAMBDA seg : seg.kind # "fence" /\ seg.text # <<>>)

\* the code and prose segments of a text, none left out: the fenced blocks
\* between empty lines, the inline code of the rest, and the prose between
CodeAndProse(t) ==
    LET raw == block_re_split(<<NL, NL>> \o t \o <<NL, NL>>, 1)
        from(i) == IF i = 1 THEN 3 ELSE 1
        to(i) == IF i = Len(raw) THEN Len(raw[i]) - 2 ELSE Len(raw[i])
    IN  Concat([i \in 1..Len(raw) |->
                   IF KindAt(i) = "code" THEN <<[kind |-> "code", text |-> raw[i]]>>
                   ELSE IF KindAt(i) = "fence" THEN <<>>
                   ELSE InlineSegments(SubSeq(raw[i], from(i), to(i)))])

\* got is the segments in a row, with any text in the place of a prose segment
RECURSIVE OnlyProseDiffers(_, _)
OnlyProseDiffers(segs, got) ==
    IF segs = <<>> THEN got = <<>>
    ELSE IF Head(segs).kind = "code"
    THEN LET code == Head(segs).text
         IN  /\ Len(got) >= Len(code)
             /\ SubSeq(got, 1, Len(code)) = code
             /\ OnlyProseDiffers(Tail(segs), SubSeq(got, Len(code) + 1, Len(got)))
    ELSE \E k \in 0..Len(got) :
             OnlyProseDiffers(Tail(segs), SubSeq(got, k + 1, Len(got)))

\* the text is a body as the program holds it
Canonical == markdown_normalize(TextOf(arg)) = TextOf(arg)

\* C18: markdown_replace_text returns the body with every code segment, a
\* fenced block or inline code, byte for byte in its place, whatever the
\* transform; only prose segments differ from the input.
C18_CodeUntouched ==
    op = "replace_text" /\ Canonical =>
        OnlyProseDiffers(CodeAndProse(TextOf(arg)), res.text)

\* the document with the transform in the place of every target of one kind
Rewritten(tr, kind) ==
    Concat([i \in 1..Len(arg) |->
               IF arg[i].kind = kind THEN conv(tr, kind, arg[i].s) ELSE arg[i].s])

\* C19: markdown_replace_link puts the transform in the place of every link
\* target and changes nothing else, markdown_replace_image does so for
\* every image target; a target ends at the first whitespace or at ")", and
\* link text and title stay as they are.
C19_ExactlyTheTarget ==
    /\ op = "replace_link" => res.text = Rewritten(res.tr, "link")
    /\ op = "replace_image" => res.text = Rewritten(res.tr, "image")

\* ------------------------------------------ SpecTranslate: the two forms
\* the link and image targets of an article at path p: the other article by
\* its relative path, plain or with a leading "./", an item by its URL, an
\* image beside the article, plain or with a leading "./", and by its URL,
\* a link to a hosted file and an image at an item URL, a link to a file
\* that is no article, an absolute path, an image outside the repository
TranslateSegs(p) ==
    {Text("x"), Blank,
     Link(rel_path(OtherPath(p), Parent(p))),
     Link([rel_path(OtherPath(p), Parent(p)) EXCEPT !.dot = TRUE]),
     Link(QiitaUrl("q1")), Link(QiitaUrl("q2")),
     Image(Rel(FALSE, 0, <<"i.png">>)), Image(Rel(TRUE, 0, <<"i.png">>)),
     Image(GitHubUrl(<<"i.png">>)), Link(GitHubUrl(<<"i.png">>)), Image(QiitaUrl("q1")),
     Link(Rel(FALSE, 0, <<"i.png">>)), Link(AbsPath), Image(Rel(FALSE, 2, <<"i.png">>))}

\* the repository: the article at p with a body of up to MaxSegs segments
\* and the article it may link to; no two files carry the same id
TranslateFiles(p) ==
    {[q \in UserPaths |->
         IF q = p THEN FileRec(QiitaData("A", <<"py">>, id, FALSE), body, 1)
         ELSE FileRec(QiitaData("A", <<"py">>, other, FALSE), <<Text("x")>>, 1)] :
        id \in {None, "q1"}, other \in {None, "q2"},
        body \in SeqsUpTo(TranslateSegs(p), MaxSegs) \ {<<>>}}

InitTranslate ==
    /\ AtRest
    /\ remote \in UNION {[S -> {CliItem}] : S \in {{}, InitIds}}
    /\ \E p \in UserPaths :
          /\ files \in TranslateFiles(p)
          /\ arg = GitHubArticle_fromFile(files, p)
    /\ qsync = QiitaSync_getInstance(files, SelectSeq(AllPaths, LAMBDA q : q \in UserPaths))
    /\ res = <<>>
    /\ op = "none"

\* QiitaSync.toQiitaArticle on the article, or on its local form
ToQiita ==
    /\ op \in {"none", "local"}
    /\ res' = QiitaSync_toQiitaArticle(files, IF op = "none" THEN arg ELSE res)
    /\ op' = IF op = "none" THEN "global" ELSE "local,global"
    /\ UNCHANGED <<arg, engine>>

\* QiitaSync.toGitHubArticle for the path of the article, on the article or
\* on its global form; extra_finder finds nothing
ToGitHub ==
    /\ op \in {"none", "global"}
    /\ res' = QiitaSync_toGitHubArticle(qsync, IF op = "none" THEN arg ELSE res,
                                        arg.filepath, <<>>)
    /\ op' = IF op = "none" THEN "local" ELSE "global,local"
    /\ UNCHANGED <<arg, engine>>

\* qsync_to_github_article's use of QiitaSync.toGitHubArticle in the second
\* loop of qsync_traverse: extra_finder finds the temporary file of every
\* item of the list
ToGitHubFinder ==
    /\ op = "none"
    /\ res' = QiitaSync_toGitHubArticle(qsync, arg, arg.filepath,
                                        [i \in DOMAIN remote |-> TmpPath(i)])
    /\ op' = "local,finder"
    /\ UNCHANGED <<arg, engine>>

NextTranslate == ToQiita \/ ToGitHub \/ ToGitHubFinder

SpecTranslate == InitTranslate /\ [][NextTranslate]_vars

\* every target of the article exists: a relative link leads to an article
\* file, an item URL to an item that has a file, an image lies inside the
\* repository
TargetExists(seg) ==
    CASE seg.kind = "link" /\ seg.tgt.t = "rel" ->
             add_path(Parent(arg.filepath), seg.tgt) \in DOMAIN files
      [] seg.kind = "link" /\ seg.tgt.t = "qiita" ->
             seg.tgt.id \in DOMAIN qsync.atcl_id_map
      [] seg.kind = "image" /\ seg.tgt.t = "rel" ->
             add_path(Parent(arg.filepath), seg.tgt) # Outside
      [] OTHER -> TRUE

AllTargetsExist == \A i \in 1..Len(arg.body) : TargetExists(arg.body[i])

\* C20: for an article whose targets all exist, the local form of its global
\* form has the body of its local form, and the global form of its local
\* form has the body of its global form.  (The targets of the model are in
\* one case, so the comparison of the lowered bodies is equality.)
C20_InverseTranslation ==
    AllTargetsExist =>
        /\ op = "global,local" =>
               res.body = QiitaSync_toGitHubArticle(qsync, arg, arg.filepath, <<>>).body
        /\ op = "local,global" =>
               res.body = QiitaSync_toQiitaArticle(files, arg).body

\* the files that carry the id
Owners(id) == {p \in DOMAIN files : files[p].data.id = id}

\* the path from the directory of the article to a path of the repository
FromArticle(path) == rel_path(path, Parent(arg.filepath))

\* the finder of the conversion that led to the state
FinderIds == IF op = "local,finder" THEN DOMAIN remote ELSE {}

\* the local form of a segment: placeholder says what becomes of a link to an
\* item without a local file
LocalFormOf(seg, placeholder) ==
    CASE seg.kind = "link" /\ seg.tgt.t = "qiita" ->
             IF Owners(seg.tgt.id) # {}
             THEN Link(FromArticle(CHOOSE p \in Owners(seg.tgt.id) : TRUE))
             ELSE IF placeholder \/ seg.tgt.id \in FinderIds
             THEN Link(FromArticle(TmpPath(seg.tgt.id)))
             ELSE seg
      [] seg.kind = "image" /\ seg.tgt.t = "github" -> Image(FromArticle(seg.tgt.path))
      [] OTHER -> seg

LocalFormBody(placeholder) ==
    to_normalize_body([i \in 1..Len(arg.body) |-> LocalFormOf(arg.body[i], placeholder)])

\* C21 as stated: toGitHubArticle turns a link to an item into the relative
\* path of the local file with that id, or of a placeholder file when there
\* is none, turns an image at a hosted-file URL into a relative path, and
\* leaves every other target as it is.
C21_ToLocalPlaceholder ==
    op \in {"local", "local,finder"} => res.body = LocalFormBody(TRUE)

\* C21 as the code has it: a link to an item without a local file becomes
\* the path of the temporary file of the item only when the caller's finder
\* knows the id, and stays as it is otherwise.
C21_ToLocal ==
    op \in {"local", "local,finder"} => res.body = LocalFormBody(FALSE)

\* a link to an item without a local file was converted with a finder that
\* does not know the id, beside a link to an item with a local file
C21_Witness ==
    /\ op = "local,finder"
    /\ \E i, j \in 1..Len(arg.body) :
          /\ arg.body[i].kind = "link" /\ arg.body[i].tgt.t = "qiita"
          /\ Owners(arg.body[i].tgt.id) = {}
          /\ arg.body[i].tgt.id \notin DOMAIN remote
          /\ arg.body[j].kind = "link" /\ arg.body[j].tgt.t = "qiita"
          /\ Owners(arg.body[j].tgt.id) # {}
          /\ res.body # Strip(arg.body)

\* the path a relative target of the article leads to
Resolved(tgt) == add_path(Parent(arg.filepath), tgt)

\* the global form of a segment: hosted says whether a link that does not
\* lead to an article with an id becomes a hosted-file URL
GlobalFormOf(seg, hosted) ==
    CASE seg.kind = "link" /\ seg.tgt.t = "rel" ->
             IF Resolved(seg.tgt) \in DOMAIN files /\ files[Resolved(seg.tgt)].data.id # None
             THEN Link(QiitaUrl(files[Resolved(seg.tgt)].data.id))
             ELSE IF hosted /\ Resolved(seg.tgt) # Outside
             THEN Link(GitHubUrl(Resolved(seg.tgt)))
             ELSE seg
      [] seg.kind = "image" /\ seg.tgt.t = "rel" ->
             IF Resolved(seg.tgt) # Outside THEN Image(GitHubUrl(Resolved(seg.tgt))) ELSE seg
      [] OTHER -> seg

GlobalFormBody(hosted) ==
    to_normalize_body([i \in 1..Len(arg.body) |-> GlobalFormOf(arg.body[i], hosted)])

\* C22 as stated: toQiitaArticle resolves every relative target against the
\* directory of the article; one that leads to an article file with an id
\* becomes the item URL, any other becomes the hosted-file URL; absolute
\* paths and URLs stay as they are.
C22_ToGlobalHosted ==
    op = "global" => res.body = GlobalFormBody(TRUE)

\* C22 as the code has it: a link that does not lead to an article file with
\* an id stays as it is; only images become hosted-file URLs.
C22_ToGlobal ==
    op = "global" => res.body = GlobalFormBody(FALSE)

\* the article was converted with a link to an article that has an id and a
\* link to a file that is no article
C22_Witness ==
    /\ op = "global"
    /\ \E i, j \in 1..Len(arg.body) :
          /\ arg.body[i].kind = "link" /\ arg.body[i].tgt.t = "rel"
          /\ Resolved(arg.body[i].tgt) \notin DOMAIN files
          /\ arg.body[j].kind = "link" /\ arg.body[j].tgt.t = "rel"
          /\ Resolved(arg.body[j].tgt) \in DOMAIN files
    /\ \E k \in 1..Len(res.body) : res.body[k].kind = "link" /\ res.body[k].tgt.t = "qiita"

\* ---------------------------------------- SpecLookup: the identity lookups
\* One process of qsync_main.  arg is its environment: what git reports for
\* HEAD, the variable GITHUB_REF (a sequence of the tokens below, or unset) and
\* the id the "who am I" request reports (<<>>: the answer carries no id).
\* res is the process: the caches of functools.lru_cache, the number of times
\* each command or request ran, the value the last call returned and the
\* exception that ended the process, if any.
MaxRef == 2
MaxCalls == 3

RefTokens == {"refs/", "heads/", "x"}
Detached == <<"HEAD">>
Caller == "caller"
Commands == {"topdir", "remote_url", "HEAD", "log", "whoami"}

\* str.replace(old, '', 1): the first occurrence of old goes
RECURSIVE str_replace_1(_, _)
str_replace_1(s, old) ==
    IF s = <<>> THEN <<>>
    ELSE IF Head(s) = old THEN Tail(s)
    ELSE <<Head(s)>> \o str_replace_1(Tail(s), old)

Raised(s, err) == [s EXCEPT !.raised = err, !.ret = <<>>]

\* exec_command and the request of qiita_get_authenticated_user: one more run
\* of the command, whose output is returned
exec_command(s, c, output) == [s EXCEPT !.runs[c] = @ + 1, !.ret = output]

\* functools.lru_cache(maxsize=1) around a call with the key k = <<function,
\* arguments>>, t being the process after the wrapped function ran: a hit
\* returns the cached value, a value returned is stored in the one slot of
\* the function, an exception is not stored
lru_cache(s, k, t) ==
    IF k \in DOMAIN s.cache THEN [s EXCEPT !.ret = s.cache[k]]
    ELSE IF t.raised # "none" THEN t
    ELSE [t EXCEPT !.cache =
             [x \in {y \in DOMAIN t.cache : y[1] # k[1]} \cup {k} |->
                 IF x = k THEN t.ret ELSE t.cache[x]]]

git_get_topdir(s, e) ==
    lru_cache(s, <<"git_get_topdir">>, exec_command(s, "topdir", <<"/repo">>))

git_get_remote_url(s, e) ==
    lru_cache(s, <<"git_get_remote_url">>, exec_command(s, "remote_url", <<"url">>))

git_get_HEAD_uncached(s, e) == exec_command(s, "HEAD", e.head)

git_get_HEAD(s, e) ==
    lru_cache(s, <<"git_get_HEAD">>, exec_command(s, "HEAD", e.head))

git_get_default_branch(s, e) ==
    lru_cache(s, <<"git_get_default_branch">>,
        LET t == git_get_HEAD(s, e)
        IN  IF t.ret = Detached
            THEN IF ~e.ref_set THEN Raised(t, "ApplicationError")
                 ELSE [t EXCEPT !.ret = str_replace_1(e.github_ref, "refs/")]
            ELSE t)

\* the committer date of one article file: the log command is not cached
git_get_committer_date(s, e) ==
    exec_command(git_get_HEAD(s, e), "log", <<"date">>)

qiita_get_authenticated_user_id(s, e, caller) ==
    lru_cache(s, <<"qiita_get_authenticated_user_id", caller>>,
        LET t == exec_command(s, "whoami", e.user)
        IN  IF t.ret # <<>> THEN t ELSE Raised(t, "ApplicationError"))

\* the lookups of QiitaSync.getInstance, in the order they are evaluated; an
\* exception ends the sequence
Then(s, t) == IF s.raised # "none" THEN s ELSE t

Lookups_getInstance(s, e) ==
    LET s1 == git_get_remote_url(s, e)
        s2 == Then(s1, git_get_default_branch(s1, e))
        s3 == Then(s2, git_get_topdir(s2, e))
    IN  Then(s3, qiita_get_authenticated_user_id(s3, e, Caller))

Environments ==
    {[head |-> h, ref_set |-> b, github_ref |-> r, user |-> u] :
        h \in {Detached, <<"main">>}, b \in BOOLEAN,
        r \in SeqsUpTo(RefTokens, MaxRef), u \in {<<"me">>, <<>>}}

InitLookup ==
    /\ Idle
    /\ arg \in {e \in Environments : ~e.ref_set => e.github_ref = <<>>}
    /\ res = [cache |-> <<>>, runs |-> [c \in Commands |-> 0],
              ret |-> <<>>, raised |-> "none"]
    /\ op = "none"

\* the process calls one lookup; qsync_main ends the process on an exception
Running == res.raised = "none" /\ \A c \in Commands : res.runs[c] < MaxCalls

CallTopdir ==
    /\ Running
    /\ res' = git_get_topdir(res, arg)
    /\ op' = "git_get_topdir"
    /\ UNCHANGED <<arg, engine>>

CallRemoteUrl ==
    /\ Running
    /\ res' = git_get_remote_url(res, arg)
    /\ op' = "git_get_remote_url"
    /\ UNCHANGED <<arg, engine>>

CallHEAD ==
    /\ Running
    /\ res' = git_get_HEAD(res, arg)
    /\ op' = "git_get_HEAD"
    /\ UNCHANGED <<arg, engine>>

CallDefaultBranch ==
    /\ Running
    /\ res' = git_get_default_branch(res, arg)
    /\ op' = "git_get_default_branch"
    /\ UNCHANGED <<arg, engine>>

CallCommitterDate ==
    /\ Running
    /\ res' = git_get_committer_date(res, arg)
    /\ op' = "git_get_committer_date"
    /\ UNCHANGED <<arg, engine>>

CallUserId ==
    /\ Running
    /\ res' = qiita_get_authenticated_user_id(res, arg, Caller)
    /\ op' = "qiita_get_authenticated_user_id"
    /\ UNCHANGED <<arg, engine>>

CallGetInstance ==
    /\ Running
    /\ res' = Lookups_getInstance(res, arg)
    /\ op' = "getInstance"
    /\ UNCHANGED <<arg, engine>>

NextLookup ==
    \/ CallTopdir
    \/ CallRemoteUrl
    \/ CallHEAD
    \/ CallDefaultBranch
    \/ CallCommitterDate
    \/ CallUserId
    \/ CallGetInstance

SpecLookup == InitLookup /\ [][NextLookup]_vars

\* C23: the default branch is the current ref name unless that is the
\* detached sentinel HEAD; then it is GITHUB_REF without its leading "refs/"
\* (removed once, and only when the value starts with it), and the lookup
\* fails with an ApplicationError when GITHUB_REF is unset
C23_DefaultBranch ==
    op = "git_get_default_branch" =>
        IF arg.head # Detached THEN res.raised = "none" /\ res.ret = arg.head
        ELSE IF ~arg.ref_set THEN res.raised = "ApplicationError"
        ELSE /\ res.raised = "none"
             /\ res.ret = IF arg.github_ref # <<>> /\ Head(arg.github_ref) = "refs/"
                          THEN Tail(arg.github_ref) ELSE arg.github_ref

\* C26: within one process the repository root, the remote URL, the current
\* ref (on which the default branch rests) and the authenticated account id
\* each cost at most one run of their command or request, however often the
\* lookups are called
C26_LookupsMemoized ==
    \A c \in {"topdir", "remote_url", "HEAD", "whoami"} : res.runs[c] <= 1

\* getInstance returned after the ref was looked up for the dates of two
\* article files, and every lookup ran once
C26_Witness ==
    /\ op = "getInstance" /\ res.raised = "none"
    /\ res.runs["log"] = 2
    /\ \A c \in {"topdir", "remote_url", "HEAD", "whoami"} : res.runs[c] = 1

\* ------------------------------------------- SpecRest: the REST API caller
\* arg is the service and the revision of the program that calls it: the
\* answers of the service to the pages of the item list (an answer past the
\* last one is the empty list), the number of requests it answers before it
\* becomes busy, and the number of requests it then answers with HTTP 429
\* (Forever: every one).  The revision "package" is qiita_sync/qiita_sync.py;
\* "script" is src/qiita_sync.py, whose caller retries on 429 and whose item
\* list is one request.
\* res is the call of qiita_get_item_list: the page the next request asks
\* for, the items gathered, the pages requested so far in the order of the
\* requests, the answers and the 429 answers still to come, the depth of the
\* nested calls of the retrying caller, and how the call ended.
MaxPages == 3
MaxBusy == 2
MaxDepth == 3

Forever == 0 - 1
NullPage == [json |-> "null", items |-> <<>>]
ListPage(items) == [json |-> "list", items |-> items]
PageResponses ==
    {NullPage, ListPage(<<>>), ListPage(<<"i1">>), ListPage(<<"i2", "i3">>)}

\* the answer of the service to the request for a page
PageOf(e, page) == IF page <= Len(e.pages) THEN e.pages[page] ELSE ListPage(<<>>)

\* opener.open in restapi_call: the request is sent; the service answers it with 429 or
\* with the page
opener_open(s, e, page) ==
    IF s.patient = 0 /\ s.busy # 0
    THEN [s EXCEPT !.requests = Append(@, page), !.http = 429,
                   !.busy = IF @ = Forever THEN @ ELSE @ - 1]
    ELSE [s EXCEPT !.requests = Append(@, page), !.http = 200,
                   !.resp = PageOf(e, page),
                   !.patient = IF @ = 0 THEN 0 ELSE @ - 1]

\* the caller of the package: one call of restapi_call, whose HTTPError is not caught
qiita_build_caller(s, e, page) == opener_open(s, e, page)

qiita_get_item_page(s, e, page) == qiita_build_caller(s, e, page)

\* the predicate of takewhile, negated: the page that ends the listing
EndOfList_null_only(resp) == resp.json = "null"

EndOfList(resp) == resp.json = "null" \/ Len(resp.items) = 0

\* one step of the lazy chain count(1) -> map -> takewhile -> filter -> reduce
\* of qiita_get_item_list: the next page is requested; an HTTPError ends the
\* call, an empty or null page ends the listing, any other page is added
qiita_get_item_list_step(s, e) ==
    LET t == qiita_get_item_page(s, e, s.page)
    IN  IF t.http = 429 THEN [t EXCEPT !.status = "HTTPError429"]
        ELSE IF EndOfList(t.resp) THEN [t EXCEPT !.status = "done"]
        ELSE [t EXCEPT !.items = @ \o t.resp.items, !.page = @ + 1]

\* the caller of the script: on 429 it calls itself with the same request, one
\* frame deeper; the interpreter ends the recursion with a RecursionError at
\* its recursion limit
qiita_build_caller_retry(s, e, page) ==
    LET t == opener_open(s, e, page)
    IN  IF t.http # 429 THEN [t EXCEPT !.items = t.resp.items, !.status = "done"]
        ELSE IF t.depth + 1 >= MaxDepth THEN [t EXCEPT !.status = "RecursionError"]
        ELSE [t EXCEPT !.depth = @ + 1]

Services ==
    {[pages |-> p, patient |-> a, busy |-> b, revision |-> r] :
        p \in SeqsUpTo(PageResponses, MaxPages), a \in 0..MaxPages,
        b \in {Forever} \cup 0..MaxBusy, r \in {"package", "script"}}

InitRest ==
    /\ Idle
    /\ arg \in {e \in Services :
                  /\ e.busy = 0 => e.patient = 0
                  /\ e.revision = "script" => Len(e.pages) <= 1 /\ e.patient = 0}
    /\ res = [page |-> 1, items |-> <<>>, requests |-> <<>>,
              patient |-> arg.patient, busy |-> arg.busy,
              http |-> 0, resp |-> NullPage, depth |-> 0, status |-> "run"]
    /\ op = "none"

GetItemPage ==
    /\ arg.revision = "package" /\ res.status = "run"
    /\ res.page <= MaxPages + 1
    /\ res' = qiita_get_item_list_step(res, arg)
    /\ op' = "qiita_get_item_page"
    /\ UNCHANGED <<arg, engine>>

RetryingRequest ==
    /\ arg.revision = "script" /\ res.status = "run"
    /\ res' = qiita_build_caller_retry(res, arg, 1)
    /\ op' = "caller"
    /\ UNCHANGED <<arg, engine>>

NextRest == GetItemPage \/ RetryingRequest

SpecRest == InitRest /\ [][NextRest]_vars

\* the number of pages before the first empty or null one
RECURSIVE FullPages(_)
FullPages(pages) ==
    IF pages = <<>> \/ Head(pages).json = "null" \/ Head(pages).items = <<>>
    THEN 0 ELSE 1 + FullPages(Tail(pages))

RECURSIVE ItemsOf(_, _)
ItemsOf(pages, n) ==
    IF n = 0 THEN <<>> ELSE ItemsOf(pages, n - 1) \o pages[n].items

\* C24: qiita_get_item_list requests the pages 1, 2, 3, ... in this order and
\* none after the first empty or null page; when it returns, it has made one
\* request for every non-empty page before that page and one for that page,
\* and its result is the items of those non-empty pages in order
C24_Pagination ==
    arg.revision = "package" =>
        LET n == FullPages(arg.pages)
        IN  /\ res.requests = [k \in 1..Len(res.requests) |-> k]
            /\ Len(res.requests) <= n + 1
            /\ res.status = "done" =>
                  /\ Len(res.requests) = n + 1
                  /\ res.items = ItemsOf(arg.pages, n)

\* the listing returned two pages of items although the service has items on
\* a page after the empty one
C24_Witness ==
    /\ arg.revision = "package" /\ res.status = "done"
    /\ Len(arg.pages) = 3
    /\ FullPages(arg.pages) = 1 /\ arg.pages[2] = ListPage(<<>>)
    /\ arg.pages[3] = ListPage(<<"i2", "i3">>)
    /\ res.requests = <<1, 2>> /\ res.items = <<"i1">>

\* C25: a request answered with HTTP 429 is sent again, the same request, with
\* no bound on the number of attempts, and the 429 never reaches the caller:
\* the call is either still under way or has returned the first answer that
\* is not a 429
C25_RateLimitRetried ==
    /\ res.status \in {"run", "done"}
    /\ res.status = "done" => res.http # 429
    /\ \A k \in 1..Len(res.requests) - 1 :
          res.requests[k + 1] \in {res.requests[k], res.requests[k] + 1}

\* ----------------------------------------------- the traversal as a whole
\* the handler invocations of the current traversal
HandlerCalls ==
    {i \in LogIdx : log[i].phase \in {"local", "remote", "narrow", "notfound", "except"}}

\* C27: in one traversal the handler is invoked at most once for an article,
\* also when the invocation fails with the error of a missing remote item,
\* and a traversal that ends normally has invoked it for every selected
\* local article
C27_HandlerOncePerArticle ==
    cmd \in Cmds =>
        /\ \A i, j \in HandlerCalls : log[i].path = log[j].path => i = j
        /\ (pc = "idle" /\ runs > 0 /\ result = "ok") =>
              \A p \in (IF target = <<>> THEN DOMAIN qsync.atcl_path_map
                        ELSE {sel[k] : k \in 1..Len(sel)}) :
                  \E i \in HandlerCalls : log[i].path = p

\* a handler call that changed the service or the working tree
Mutates(e) ==
    \/ e.writes # {} \/ e.removes # {}
    \/ \E j \in 1..Len(e.calls) : e.calls[j].method \in {"POST", "PATCH", "DELETE"}

\* C28: a sync pass over the git directory that follows a sync pass which
\* ended without error performs no mutation: no POST, PATCH or DELETE and no
\* file written or removed
C28_SyncIdempotent ==
    (cmd = "sync" /\ prev.cmd = "sync" /\ prev.result = "ok") =>
        \A i \in LogIdx : ~Mutates(log[i])

\* the ids of the items the call created or updated
SentIds(e) ==
    {e.calls[j].id : j \in {k \in 1..Len(e.calls) : e.calls[k].method \in {"POST", "PATCH"}}}

\* the link of an article at path, followed on the disk, leads to an article
\* file that carries an id
LeadsToArticle(link, path) ==
    /\ link.t = "rel"
    /\ LET p == add_path(Parent(path), link)
       IN  p \in DOMAIN files /\ files[p].data.id # None

\* C29: when a sync pass over the git directory has ended, the remote body of
\* an article uploaded during the pass holds no relative link to a local
\* article file that carries an id: every such link was uploaded as the URL
\* of the linked article, whatever the order in which the articles were
\* processed
C29_CrossLinksUploaded ==
    (Finished /\ cmd = "sync") =>
        \A i \in LogIdx : \A id \in SentIds(log[i]) :
            id \in DOMAIN remote =>
                \A k \in 1..Len(remote[id].body) :
                    remote[id].body[k].kind = "link" =>
                        ~LeadsToArticle(remote[id].body[k].tgt, log[i].path)

\* C30: a file that is written for an article with an id carries that id
\* when it is read again: no download, upload, sync or prune that writes the
\* file of an article removes the id from it or puts another id in its place
C30_IdStable ==
    (op = "fromFile" /\ arg.data.id # <<>>) => res.data.id = arg.data.id

====
